---- MODULE Spec2Model ----
(***************************************************************************)
(* MPFX: re-rounding of IEEE 754 doubles into a target format (p, n, rm),  *)
(* the round-to-odd engines that feed it, the rounding contexts and the    *)
(* process-wide status flags.                                              *)
(*                                                                         *)
(* The host format is ieee754_consts<E, N> of params.hpp.  The library     *)
(* instantiates it at <11, 64>; the model instantiates the same template   *)
(* at <FP_E, FP_E + FP_P>, so that every bit pattern of the format can be  *)
(* enumerated.  A double is its bit pattern, a natural below 2^FP_N.       *)
(***************************************************************************)
EXTENDS Integers, FiniteSets, Sequences, TLC

\* ------------------------------------------------------------------------
\* Bounds of the model
\* ------------------------------------------------------------------------

\* width of the exponent field of the host format (11 in the library)
FP_E == 3

\* precision of the host format, implicit bit included (53 in the library)
FP_P == 4

\* bits by which the fixed-point significand exceeds the host precision
\* (63 - 53 = 10 in the library)
FX_EXTRA == 1

\* ------------------------------------------------------------------------
\* params.hpp: ieee754_consts
\* ------------------------------------------------------------------------

Pow2(k) == 2 ^ k

bitmask(k) == Pow2(k) - 1

FP_N == FP_E + FP_P

FP_M == FP_P - 1

FP_EMAX == bitmask(FP_E - 1)

FP_EMIN == 1 - FP_EMAX

FP_EXPMIN == FP_EMIN - FP_P + 1

FP_BIAS == FP_EMAX

FP_SMASK == Pow2(FP_N - 1)

FP_MMASK == bitmask(FP_M)

FP_EONES == bitmask(FP_E)

FP_IMPLICIT1 == Pow2(FP_M)

\* width of the magnitude of the signed fixed-point significand
\* (PREC = 8 * sizeof(int64_t) - 1 in the library)
FX_PREC == FP_P + FX_EXTRA

\* std::numeric_limits<T>::min() of the signed significand type
FX_MIN_VAL == 0 - Pow2(FX_PREC)

\* ------------------------------------------------------------------------
\* Bit-level helpers (<bit>, shifts)
\* ------------------------------------------------------------------------

RECURSIVE bit_width(_)
bit_width(c) == IF c = 0 THEN 0 ELSE 1 + bit_width(c \div 2)

RECURSIVE countr_zero(_)
countr_zero(c) == IF c % 2 = 1 THEN 0 ELSE 1 + countr_zero(c \div 2)

ShiftR(c, k) == c \div Pow2(k)

ShiftL(c, k) == c * Pow2(k)

\* ------------------------------------------------------------------------
\* Doubles as bit patterns
\* ------------------------------------------------------------------------

SignOf(b) == b \div FP_SMASK = 1

EBitsOf(b) == (b \div Pow2(FP_M)) % Pow2(FP_E)

MBitsOf(b) == b % Pow2(FP_M)

isfinite(b) == EBitsOf(b) # FP_EONES

isinf(b) == EBitsOf(b) = FP_EONES /\ MBitsOf(b) = 0

isnan(b) == EBitsOf(b) = FP_EONES /\ MBitsOf(b) # 0

signbit(b) == SignOf(b)

IsZero(b) == b % FP_SMASK = 0

\* unary minus on a double: flips the sign bit
Negate(b) == IF SignOf(b) THEN b - FP_SMASK ELSE b + FP_SMASK

\* std::abs on a double: clears the sign bit
fabs(b) == b % FP_SMASK

copysign(mag, sgn) == IF SignOf(sgn) THEN fabs(mag) + FP_SMASK ELSE fabs(mag)

POS_INF == FP_EONES * Pow2(FP_M)

QNAN == POS_INF + Pow2(FP_M - 1)

NEG_ZERO == FP_SMASK

\* ------------------------------------------------------------------------
\* convert.hpp
\* ------------------------------------------------------------------------

\* unpack_float: x = (-1)^s * c * 2^exp
unpack_float(b) ==
    IF EBitsOf(b) = 0
    THEN [s |-> SignOf(b), exp |-> FP_EXPMIN, c |-> MBitsOf(b)]
    ELSE [s |-> SignOf(b),
          exp |-> (EBitsOf(b) - FP_BIAS) - FP_M,
          c |-> FP_IMPLICIT1 + MBitsOf(b)]

\* ------------------------------------------------------------------------
\* flags.hpp: the process-wide status register, a set of raised flags
\* ------------------------------------------------------------------------

ALL_FLAGS ==
    {"invalid", "div_by_zero", "overflow", "tiny_before", "tiny_after",
     "underflow_before", "underflow_after", "inexact", "carry"}

NO_FLAGS == {}

set_invalid(f) == f \cup {"invalid"}

set_div_by_zero(f) == f \cup {"div_by_zero"}

set_overflow(f) == f \cup {"overflow"}

\* a copy-paste slip: the setter writes the neighbouring bit
set_tiny_before_rounding_wrong_bit(f) == f \cup {"tiny_after"}

set_tiny_before_rounding(f) == f \cup {"tiny_before"}

set_tiny_after_rounding(f) == f \cup {"tiny_after"}

set_underflow_before_rounding(f) == f \cup {"underflow_before"}

\* a copy-paste slip: the setter writes the neighbouring bit
set_underflow_after_rounding_wrong_bit(f) == f \cup {"underflow_before"}

set_underflow_after_rounding(f) == f \cup {"underflow_after"}

\* set_inexact written as an assignment of the bit
set_inexact_assigns(f) == {"inexact"}

set_inexact(f) == f \cup {"inexact"}

\* set_carry writing the bit of overflow
set_carry_wrong_bit(f) == f \cup {"overflow"}

set_carry(f) == f \cup {"carry"}

reset(f) == {}

\* ------------------------------------------------------------------------
\* round.hpp: rounding modes and the re-rounding kernel
\* ------------------------------------------------------------------------

RoundingMode == {"RNE", "RNA", "RTP", "RTN", "RTZ", "RAZ", "RTO", "RTE"}

\* std::optional<exp_t>
None == [has |-> FALSE, val |-> 0]

Some(v) == [has |-> TRUE, val |-> v]

get_direction(mode, sign) ==
    CASE mode = "RNE" -> "TO_EVEN"
      [] mode = "RNA" -> "AWAY_ZERO"
      [] mode = "RTP" -> IF sign THEN "TO_ZERO" ELSE "AWAY_ZERO"
      [] mode = "RTN" -> IF sign THEN "AWAY_ZERO" ELSE "TO_ZERO"
      [] mode = "RTZ" -> "TO_ZERO"
      [] mode = "RAZ" -> "AWAY_ZERO"
      [] mode = "RTO" -> "TO_ODD"
      [] mode = "RTE" -> "TO_EVEN"

\* encode with the subnormal shift one too large
encode_subnormal_shift_off_by_one(P, s, e, c) ==
    LET cc == IF P > FP_P THEN c \div Pow2(P - FP_P) ELSE c
        u == IF P > FP_P THEN cc
             ELSE IF P < FP_P THEN c * Pow2(FP_P - P)
             ELSE c
        ebits == IF cc = 0 THEN 0
                 ELSE IF e < FP_EMIN THEN 0
                 ELSE e + FP_BIAS
        mbits == IF cc = 0 THEN 0
                 ELSE IF e < FP_EMIN THEN u \div Pow2(FP_EMIN - e + 1)
                 ELSE u % Pow2(FP_M)
        b == ((ebits * Pow2(FP_M)) + mbits) % Pow2(FP_N)
    IN IF s THEN (b + FP_SMASK) % Pow2(FP_N) ELSE b

\* encode<P>: packs (s, e, c), c zero or exactly P bits wide, into a double.
\* The word b = (ebits << M) | mbits is an FP_N-bit unsigned integer, and
\* the final negation flips its sign bit.
encode(P, s, e, c) ==
    LET cc == IF P > FP_P THEN ShiftR(c, P - FP_P) ELSE c
        u == IF P > FP_P THEN cc
             ELSE IF P < FP_P THEN ShiftL(c, FP_P - P)
             ELSE c
        ebits == IF cc = 0 THEN 0
                 ELSE IF e < FP_EMIN THEN 0
                 ELSE e + FP_BIAS
        mbits == IF cc = 0 THEN 0
                 ELSE IF e < FP_EMIN THEN ShiftR(u, FP_EMIN - e)
                 ELSE u % Pow2(FP_M)
        b == (ShiftL(ebits, FP_M) + mbits) % Pow2(FP_N)
    IN IF s THEN Negate(b) ELSE b

\* round_increment with RNE breaking ties away from zero
round_increment_rne_ties_away(s, c_kept, c_lost, p_lost, rm, overshiftp) ==
    LET halfway == Pow2(p_lost - 1)
        lsb == (c_kept \div Pow2(p_lost)) % 2
    IN CASE rm \in {"RNE", "RNA"} ->
              IF overshiftp \/ c_lost # halfway
              THEN ~overshiftp /\ c_lost > halfway
              ELSE TRUE
         [] rm = "RTP" -> ~s
         [] rm = "RTN" -> s
         [] rm = "RTZ" -> FALSE
         [] rm = "RAZ" -> TRUE
         [] rm = "RTO" -> lsb = 0
         [] rm = "RTE" -> lsb = 1

\* round_increment with the tests of RTO and RTE exchanged
round_increment_parity_exchanged(s, c_kept, c_lost, p_lost, rm, overshiftp) ==
    LET halfway == Pow2(p_lost - 1)
        lsb == ShiftR(c_kept, p_lost) % 2
    IN CASE rm \in {"RNE", "RNA"} ->
              IF overshiftp \/ c_lost # halfway
              THEN ~overshiftp /\ c_lost > halfway
              ELSE IF rm = "RNE" THEN lsb = 1 ELSE TRUE
         [] rm = "RTP" -> ~s
         [] rm = "RTN" -> s
         [] rm = "RTZ" -> FALSE
         [] rm = "RAZ" -> TRUE
         [] rm = "RTO" -> lsb = 1
         [] rm = "RTE" -> lsb = 0

round_increment(s, c_kept, c_lost, p_lost, rm, overshiftp) ==
    LET halfway == Pow2(p_lost - 1)
        lsb == ShiftR(c_kept, p_lost) % 2
    IN CASE rm \in {"RNE", "RNA"} ->
              IF overshiftp \/ c_lost # halfway
              THEN ~overshiftp /\ c_lost > halfway
              ELSE IF rm = "RNE" THEN lsb = 1 ELSE TRUE
         [] rm = "RTP" -> ~s
         [] rm = "RTN" -> s
         [] rm = "RTZ" -> FALSE
         [] rm = "RAZ" -> TRUE
         [] rm = "RTO" -> lsb = 0
         [] rm = "RTE" -> lsb = 1

\* the cutoff taken as every P-bit significand
tiny_cutoff_whole_binade(P, p) == bitmask(P)

\* cutoff: the largest P-bit significand with p significant bits, below
\* which a value of the binade under 2^emin stays tiny after rounding
tiny_cutoff(P, p) == ShiftL(bitmask(p), P - p)

\* the carry test written with > in place of >=
carry_out_strict(P, c_kept) == c_kept > Pow2(P)

\* c_kept >= overflow_mask: the increment carried out of the P bits
carry_out(P, c_kept) == c_kept >= Pow2(P)

\* if constexpr (CHECK) { if (cond) flags.set(); }: raised holds when the
\* flag is checked and its condition is met
raise_if(raised, set(_), f) == IF raised THEN set(f) ELSE f

\* round_inexact raising underflow_before from the tiny_before bit of the
\* register instead of the tininess of this value
round_inexact_reads_register(P, FlagMask, f, s, e, c_kept, c_lost, p_lost, rm, overshiftp, tiny_before, tiny_after_easy) ==
    LET CHECK_TINY_AFTER == "tiny_after" \in FlagMask
        CHECK_UNDERFLOW_BEFORE == "underflow_before" \in FlagMask
        CHECK_UNDERFLOW_AFTER == "underflow_after" \in FlagMask
        CHECK_INEXACT == "inexact" \in FlagMask
        CHECK_CARRY == "carry" \in FlagMask
        hard == /\ CHECK_TINY_AFTER \/ CHECK_UNDERFLOW_AFTER
                /\ tiny_before
                /\ ~tiny_after_easy
        tiny_after ==
            IF hard
            THEN ~round_increment(s, Pow2(p_lost - 1),
                                  c_lost % Pow2(p_lost - 1),
                                  p_lost - 1, rm, FALSE)
            ELSE tiny_after_easy
        f3 == raise_if(hard /\ tiny_after /\ CHECK_TINY_AFTER,
                       set_tiny_after_rounding, f)
        incrementp == round_increment(s, c_kept, c_lost, p_lost, rm, overshiftp)
        c_inc == IF incrementp THEN c_kept + Pow2(p_lost) ELSE c_kept
        carryp == incrementp /\ carry_out(P, c_inc)
        e2 == IF carryp THEN e + 1 ELSE e
        c_fin == IF carryp THEN ShiftR(c_inc, 1) ELSE c_inc
        f4 == raise_if(carryp /\ CHECK_CARRY /\ ~tiny_before, set_carry, f3)
        f5 == raise_if(CHECK_UNDERFLOW_BEFORE /\ "tiny_before" \in f,
                       set_underflow_before_rounding, f4)
        f6 == raise_if(CHECK_UNDERFLOW_AFTER /\ tiny_after,
                       set_underflow_after_rounding, f5)
        f7 == raise_if(CHECK_INEXACT, set_inexact, f6)
    IN [val |-> encode(P, s, e2, c_fin), flags |-> f7]

\* round_finalize, the slow path of an inexact result: c_kept and c_lost
\* are the digits kept and lost, e the exponent after subnormalization,
\* tiny_after_easy the tininess after rounding found before the split.
round_inexact(P, FlagMask, f, s, e, c_kept, c_lost, p_lost, rm, overshiftp, tiny_before, tiny_after_easy) ==
    LET CHECK_TINY_AFTER == "tiny_after" \in FlagMask
        CHECK_UNDERFLOW_BEFORE == "underflow_before" \in FlagMask
        CHECK_UNDERFLOW_AFTER == "underflow_after" \in FlagMask
        CHECK_INEXACT == "inexact" \in FlagMask
        CHECK_CARRY == "carry" \in FlagMask
        hard == /\ CHECK_TINY_AFTER \/ CHECK_UNDERFLOW_AFTER
                /\ tiny_before
                /\ ~tiny_after_easy
        tiny_after ==
            IF hard
            THEN ~round_increment(s, Pow2(p_lost - 1),
                                  c_lost % Pow2(p_lost - 1),
                                  p_lost - 1, rm, FALSE)
            ELSE tiny_after_easy
        f3 == raise_if(hard /\ tiny_after /\ CHECK_TINY_AFTER,
                       set_tiny_after_rounding, f)
        incrementp == round_increment(s, c_kept, c_lost, p_lost, rm, overshiftp)
        c_inc == IF incrementp THEN c_kept + Pow2(p_lost) ELSE c_kept
        carryp == incrementp /\ carry_out(P, c_inc)
        e2 == IF carryp THEN e + 1 ELSE e
        c_fin == IF carryp THEN ShiftR(c_inc, 1) ELSE c_inc
        f4 == raise_if(carryp /\ CHECK_CARRY /\ ~tiny_before, set_carry, f3)
        f5 == raise_if(CHECK_UNDERFLOW_BEFORE /\ tiny_before,
                       set_underflow_before_rounding, f4)
        f6 == raise_if(CHECK_UNDERFLOW_AFTER /\ tiny_after,
                       set_underflow_after_rounding, f5)
        f7 == raise_if(CHECK_INEXACT, set_inexact, f6)
    IN [val |-> encode(P, s, e2, c_fin), flags |-> f7]

\* round_finalize<P, T, FlagMask>: f is the flag register on entry; the
\* result is the rounded double and the flag register on return.
round_finalize(P, FlagMask, f, s, e, c, p, n, rm) ==
    LET CHECK_TINY_BEFORE == "tiny_before" \in FlagMask
        CHECK_TINY_AFTER == "tiny_after" \in FlagMask
        CHECK_UNDERFLOW_AFTER == "underflow_after" \in FlagMask
    IN
    IF c = 0
    THEN [val |-> IF s THEN NEG_ZERO ELSE 0,
          flags |-> raise_if(CHECK_TINY_AFTER, set_tiny_after_rounding,
                        raise_if(CHECK_TINY_BEFORE,
                                 set_tiny_before_rounding, f))]
    ELSE
    LET emin == n.val + p
        eoffset == emin - e
        subnormalize == n.has /\ eoffset > 0
        shift == eoffset
        tiny_before == subnormalize
        f1 == raise_if(subnormalize /\ CHECK_TINY_BEFORE,
                       set_tiny_before_rounding, f)
        check_after == CHECK_TINY_AFTER \/ CHECK_UNDERFLOW_AFTER
        cutoff == tiny_cutoff(P, p)
        tiny_after_easy ==
            subnormalize /\ check_after /\ (shift > 1 \/ c <= cutoff)
        f2 == raise_if(tiny_after_easy /\ CHECK_TINY_AFTER,
                       set_tiny_after_rounding, f1)
        overshiftp == subnormalize /\ shift > p
        p_kept == IF subnormalize
                  THEN (IF overshiftp THEN 0 ELSE p - shift)
                  ELSE p
        e1 == IF overshiftp THEN n.val ELSE e
        p_lost == IF p_kept < P THEN P - p_kept ELSE 0
        c_lost == c % Pow2(p_lost)
    IN
    IF c_lost = 0
    THEN [val |-> encode(P, s, e1, c), flags |-> f2]
    ELSE round_inexact(P, FlagMask, f2, s, e1, c - c_lost, c_lost, p_lost, rm,
                       overshiftp, tiny_before, tiny_after_easy)

\* round<FlagMask>(double x, p, n, rm)
round(FlagMask, f, x, p, n, rm) ==
    IF ~isfinite(x) THEN [val |-> x, flags |-> f]
    ELSE
    LET u == unpack_float(x)
        lz == IF u.exp = FP_EXPMIN THEN FP_P - bit_width(u.c) ELSE 0
        c == ShiftL(u.c, lz)
        exp == u.exp - lz
        e == exp + (FP_P - 1)
    IN round_finalize(FP_P, FlagMask, f, u.s, e, c, p, n, rm)

\* round<T, FlagMask>(T m, exp, p, n, rm)
round_fixed(FlagMask, f, m, exp0, p, n, rm) ==
    LET s == m < 0
        c0 == IF m < 0
              THEN (IF m = FX_MIN_VAL THEN Pow2(FX_PREC - 1) ELSE 0 - m)
              ELSE m
        exp1 == IF m = FX_MIN_VAL THEN exp0 + 1 ELSE exp0
        lz == FX_PREC - bit_width(c0)
        c == ShiftL(c0, lz)
        exp == exp1 - lz
        e == exp + (FX_PREC - 1)
    IN round_finalize(FX_PREC, FlagMask, f, s, e, c, p, n, rm)

\* ------------------------------------------------------------------------
\* Comparison of doubles (operator==, operator> of the language)
\* ------------------------------------------------------------------------

\* x == y on doubles: false on NaN, and +0 == -0
DoubleEq(a, b) ==
    /\ ~isnan(a)
    /\ ~isnan(b)
    /\ (a = b \/ (IsZero(a) /\ IsZero(b)))

\* the comparison written with >= in place of >
AbsGreaterOrEqual(x, maxval) ==
    /\ ~isnan(x)
    /\ ~isnan(maxval)
    /\ fabs(x) >= maxval

\* std::abs(x) > maxval for a non-negative maxval
AbsGreater(x, maxval) ==
    /\ ~isnan(x)
    /\ ~isnan(maxval)
    /\ fabs(x) > maxval

\* ------------------------------------------------------------------------
\* context.hpp / context.cpp
\* ------------------------------------------------------------------------

\* std::optional<double>
NoMax == [has |-> FALSE, val |-> 0]

SomeMax(v) == [has |-> TRUE, val |-> v]

\* Context::Context with the sign assertion alone
Context_without_rounding_assert(p, n, maxval, rm) ==
    LET pth_bit_pos == FP_M - p + 1
        odd == /\ maxval.has
               /\ pth_bit_pos >= 0
               /\ ShiftR(maxval.val, pth_bit_pos) % 2 = 1
    IN [ok |-> maxval.has => ~signbit(maxval.val), p |-> p, n |-> n,
        maxval |-> maxval, rm |-> rm, maxval_is_odd |-> odd]

\* Context::Context: ok is FALSE when one of the two MPFX_ASSERTs fails.
\* maxval_is_odd_ is left unset (FALSE here) when maxval is absent; it is
\* read only when maxval is present.
Context(p, n, maxval, rm) ==
    LET pth_bit_pos == FP_M - p + 1
        odd == /\ maxval.has
               /\ pth_bit_pos >= 0
               /\ ShiftR(maxval.val, pth_bit_pos) % 2 = 1
        ok == maxval.has =>
                 /\ ~signbit(maxval.val)
                 /\ DoubleEq(maxval.val,
                             round(NO_FLAGS, {}, maxval.val, p, n, rm).val)
    IN [ok |-> ok, p |-> p, n |-> n, maxval |-> maxval, rm |-> rm,
        maxval_is_odd |-> odd]

\* overflow_to_infinity with the two parity cases exchanged
overflow_to_infinity_parity_swapped(rm, s, maxval_odd) ==
    LET dir == get_direction(rm, s)
    IN CASE dir = "TO_ZERO" -> FALSE
         [] dir = "AWAY_ZERO" -> TRUE
         [] dir = "TO_EVEN" -> ~maxval_odd
         [] dir = "TO_ODD" -> maxval_odd

overflow_to_infinity(rm, s, maxval_odd) ==
    LET dir == get_direction(rm, s)
    IN CASE dir = "TO_ZERO" -> FALSE
         [] dir = "AWAY_ZERO" -> TRUE
         [] dir = "TO_EVEN" -> maxval_odd
         [] dir = "TO_ODD" -> ~maxval_odd

\* round_overflow without the early return for a non-finite x
round_overflow_without_finite_test(FlagMask, f, ctx, x) ==
    IF ~ctx.maxval.has \/ isnan(x) THEN [val |-> x, flags |-> f]
    ELSE IF AbsGreater(x, ctx.maxval.val)
    THEN [val |-> IF overflow_to_infinity(ctx.rm, signbit(x), ctx.maxval_is_odd)
                  THEN copysign(POS_INF, x)
                  ELSE copysign(ctx.maxval.val, x),
          flags |-> raise_if("inexact" \in FlagMask, set_inexact,
                             raise_if("overflow" \in FlagMask, set_overflow, f))]
    ELSE [val |-> x, flags |-> f]

\* round_overflow with the whole overflow branch under the OVERFLOW_FLAG test
round_overflow_under_flag_test(FlagMask, f, ctx, x) ==
    IF ~ctx.maxval.has THEN [val |-> x, flags |-> f]
    ELSE IF ~isfinite(x) THEN [val |-> x, flags |-> f]
    ELSE IF AbsGreater(x, ctx.maxval.val) /\ "overflow" \in FlagMask
    THEN [val |-> IF overflow_to_infinity(ctx.rm, signbit(x), ctx.maxval_is_odd)
                  THEN copysign(POS_INF, x)
                  ELSE copysign(ctx.maxval.val, x),
          flags |-> raise_if("inexact" \in FlagMask, set_inexact,
                             set_overflow(f))]
    ELSE [val |-> x, flags |-> f]

\* Context::round_overflow<FlagMask>
round_overflow(FlagMask, f, ctx, x) ==
    IF ~ctx.maxval.has THEN [val |-> x, flags |-> f]
    ELSE IF ~isfinite(x) THEN [val |-> x, flags |-> f]
    ELSE IF AbsGreater(x, ctx.maxval.val)
    THEN LET f1 == raise_if("overflow" \in FlagMask, set_overflow, f)
             f2 == raise_if("inexact" \in FlagMask, set_inexact, f1)
         IN [val |-> IF overflow_to_infinity(ctx.rm, signbit(x), ctx.maxval_is_odd)
                     THEN copysign(POS_INF, x)
                     ELSE copysign(ctx.maxval.val, x),
             flags |-> f2]
    ELSE [val |-> x, flags |-> f]

\* round_prec with a single guard bit
round_prec_one_guard_bit(ctx) == ctx.p + 1

round_prec(ctx) == ctx.p + 2

\* the value a rounding returns, with the value kval the kernel returned
with_kval(o, kval) == [val |-> o.val, flags |-> o.flags, kval |-> kval]

\* return round_overflow<FlagMask>(r), r = k.val being the kernel's result
\* and k.flags the register it left
Context_overflow(FlagMask, ctx, k) ==
    with_kval(round_overflow(FlagMask, k.flags, ctx, k.val), k.val)

\* Context::round<FlagMask>(double): kernel, then overflow handling.
\* kval is the value the kernel returned.
Context_round(FlagMask, f, ctx, x) ==
    Context_overflow(FlagMask, ctx, round(FlagMask, f, x, ctx.p, ctx.n, ctx.rm))

\* Context::round<FlagMask>(int64_t m, exp_t exp)
Context_round_fixed(FlagMask, f, ctx, m, exp) ==
    Context_overflow(FlagMask, ctx,
                     round_fixed(FlagMask, f, m, exp, ctx.p, ctx.n, ctx.rm))

\* ------------------------------------------------------------------------
\* Inputs
\* ------------------------------------------------------------------------

\* every finite double, both infinities and one NaN
Doubles == {b \in 0 .. (Pow2(FP_N) - 1) : ~isnan(b)} \cup {QNAN}

FiniteDoubles == {b \in Doubles : isfinite(b)}

Precs == 1 .. FP_P

\* positions n from below the least subnormal bit to above the top binade
Positions == {None} \cup {Some(v) : v \in (FP_EXPMIN - 2) .. (FP_EMAX + 1)}

\* overflow thresholds offered to a context of precision p: the largest
\* p-bit value of the binade of 1.0 (odd), 2.0 (even) and the largest
\* finite double
MaxvalChoices(p) ==
    {SomeMax(ShiftL(FP_BIAS, FP_M) + ShiftL(bitmask(p - 1), FP_P - p)),
     SomeMax(ShiftL(FP_BIAS + 1, FP_M)),
     SomeMax(POS_INF - 1)}

\* the contexts with an overflow threshold whose construction succeeds
BoundedContexts ==
    {c \in {Context(p, n, mv, rm) :
               p \in Precs, n \in Positions, rm \in RoundingMode,
               mv \in UNION {MaxvalChoices(q) : q \in Precs}} : c.ok}

\* fixed-point inputs m * 2^exp: every m of the signed type, exponents
\* that place the value below, inside and above the range of a double
FixedSignificands == FX_MIN_VAL .. (Pow2(FX_PREC) - 1)

FixedExponents == (FP_EXPMIN - 2) .. (FP_EMAX - FX_PREC + 2)

\* ------------------------------------------------------------------------
\* State
\* ------------------------------------------------------------------------

VARIABLES
    flags,   \* mpfx::flags, the process-wide status register
    last,    \* the operation performed last: name, operands and result
    fpscr    \* the rounding-control field of the host's floating-point
             \* control register (bits 13-14 of MXCSR); the exception bits
             \* of a host operation are carried by its result

vars == <<flags, last, fpscr>>

\* the rounding modes of the control register: RM_RNE, RM_RTN, RM_RTP, RM_RTZ
HostModes == {"RNE", "RTN", "RTP", "RTZ"}

\* prepare_rto: returns the register read and leaves RM_RTZ in it
prepare_rto(csr) == [old_csr |-> csr, csr |-> "RTZ"]

\* rto_status with the register written back from its current value
rto_status_from_current(csr, old_csr) == csr

\* rto_status: set_fpscr(old_csr & ~EXCEPT_ALL) writes the saved field back
rto_status(csr, old_csr) == old_csr

\* the frame of a hardware-engine operation: const auto old_csr =
\* arch::prepare_rto(); ...; arch::rto_status(old_csr);
engine_fp_frame(saved) == rto_status(saved.csr, saved.old_csr)

\* the control register an operation of engine E leaves: only the hardware
\* engine touches it
engine_fpscr(E, csr) ==
    IF E = "FP_RTO" THEN engine_fp_frame(prepare_rto(csr)) ELSE csr

\* engine: the engine of an arithmetic operation; x, y, z: double operands;
\* m, exp: fixed-point operand; ctx: the context, or the (p, n, rm) handed
\* to the kernel; r: the engine's intermediate result; kval: value returned
\* by the kernel; res: value returned by the operation; mask: the FlagMask
\* template argument of the call, ALL_FLAGS by default
Blank ==
    [op |-> "reset", engine |-> "none", x |-> 0, y |-> 0, z |-> 0,
     m |-> 0, exp |-> 0, ctx |-> Context(1, None, NoMax, "RNE"),
     r |-> 0, kval |-> 0, res |-> 0, mask |-> ALL_FLAGS]

\* static initialisation: Flags() : flags(0)
Init ==
    /\ flags = {}
    /\ last = Blank
    /\ fpscr = "RNE"

\* flags.reset()
Reset ==
    /\ flags' = reset(flags)
    /\ last' = Blank
    /\ UNCHANGED fpscr

\* mpfx::round(x, p, n, rm), the kernel's double entry point
Round(x, p, n, rm) ==
    LET r == round(ALL_FLAGS, flags, x, p, n, rm)
    IN /\ flags' = r.flags
       /\ last' = [Blank EXCEPT !.op = "round", !.x = x,
                                !.ctx = Context(p, n, NoMax, rm),
                                !.kval = r.val, !.res = r.val]
       /\ UNCHANGED fpscr

\* mpfx::round(m, exp, p, n, rm), the kernel's fixed-point entry point
RoundFixed(m, exp, p, n, rm) ==
    LET r == round_fixed(ALL_FLAGS, flags, m, exp, p, n, rm)
    IN /\ flags' = r.flags
       /\ last' = [Blank EXCEPT !.op = "round_fixed", !.m = m, !.exp = exp,
                                !.ctx = Context(p, n, NoMax, rm),
                                !.kval = r.val, !.res = r.val]
       /\ UNCHANGED fpscr

\* ctx.round(x) on a context with an overflow threshold
CtxRound(x, ctx) ==
    LET r == Context_round(ALL_FLAGS, flags, ctx, x)
    IN /\ flags' = r.flags
       /\ last' = [Blank EXCEPT !.op = "ctx_round", !.x = x, !.ctx = ctx,
                                !.kval = r.kval, !.res = r.val]
       /\ UNCHANGED fpscr

\* the register has just been reset (or never written): the flags the next
\* operation raises can be sampled, as the tests do
Ready == flags = {} /\ last.op = "reset"

\* the double entry point of the kernel, each call on a reset register
NextRound ==
    \/ Reset
    \/ Ready /\ \E x \in Doubles, p \in Precs, n \in Positions,
                   rm \in RoundingMode : Round(x, p, n, rm)

SpecRound == Init /\ [][NextRound]_vars

\* both entry points of the kernel, each call on a reset register
NextKernel ==
    \/ NextRound
    \/ Ready /\ \E m \in FixedSignificands, exp \in FixedExponents,
                   p \in Precs, n \in Positions, rm \in RoundingMode :
                   RoundFixed(m, exp, p, n, rm)

SpecKernel == Init /\ [][NextKernel]_vars

\* rounding under a context with an overflow threshold
NextCtx ==
    \/ Reset
    \/ Ready /\ \E x \in Doubles, ctx \in BoundedContexts : CtxRound(x, ctx)

SpecCtx == Init /\ [][NextCtx]_vars

\* ------------------------------------------------------------------------
\* Real values and one-step correct rounding (the yardstick of the claims)
\* ------------------------------------------------------------------------

\* A real value is [s, c, exp, sticky]: magnitude c * 2^exp when ~sticky,
\* and strictly between c * 2^exp and (c + 1) * 2^exp when sticky.

\* the real value of a finite double
ValueOfDouble(b) ==
    LET u == unpack_float(b)
    IN [s |-> u.s, c |-> u.c, exp |-> u.exp, sticky |-> FALSE]

\* the real value of the fixed-point number m * 2^exp
ValueOfFixed(m, exp) ==
    [s |-> m < 0, c |-> IF m < 0 THEN 0 - m ELSE m, exp |-> exp,
     sticky |-> FALSE]

\* floor(log2 |v|) of a non-zero value
ExponentOf(v) == v.exp + bit_width(v.c) - 1

\* The value of v rounded once to the format (p, n) under rm: v itself when
\* it has at most p significant bits, all above position n; otherwise the
\* neighbour lo = K * 2^q or hi = (K + 1) * 2^q that rm selects, q being
\* the position of the last bit the format keeps around v.
RefRound(v, p, n, rm) ==
    IF v.c = 0 /\ ~v.sticky THEN v
    ELSE
    LET e == ExponentOf(v)
        q == IF n.has /\ n.val + 1 > e - p + 1 THEN n.val + 1 ELSE e - p + 1
    IN IF q <= v.exp /\ ~v.sticky THEN v
       ELSE
       LET d == q - v.exp
           K == v.c \div Pow2(d)
           r == v.c % Pow2(d)
           half == Pow2(d - 1)
           exact == r = 0 /\ ~v.sticky
           above == r > half \/ (r = half /\ v.sticky)
           tie == r = half /\ ~v.sticky
           up == CASE rm = "RNE" -> above \/ (tie /\ K % 2 = 1)
                   [] rm = "RNA" -> above \/ tie
                   [] rm = "RTP" -> ~v.s
                   [] rm = "RTN" -> v.s
                   [] rm = "RTZ" -> FALSE
                   [] rm = "RAZ" -> TRUE
                   [] rm = "RTO" -> K % 2 = 0
                   [] rm = "RTE" -> K % 2 = 1
       IN [s |-> v.s, c |-> IF ~exact /\ up THEN K + 1 ELSE K, exp |-> q,
           sticky |-> FALSE]

\* c1 * 2^e1 = c2 * 2^e2
SameMagnitude(c1, e1, c2, e2) ==
    IF e1 >= e2 THEN c1 * Pow2(e1 - e2) = c2 ELSE c1 = c2 * Pow2(e2 - e1)

\* the double b is exactly the value v, sign of zero included
DoubleIsValue(b, v) ==
    /\ isfinite(b)
    /\ ~v.sticky
    /\ LET u == unpack_float(b)
       IN u.s = v.s /\ SameMagnitude(u.c, u.exp, v.c, v.exp)

\* some finite double is exactly the value v
FitsDouble(v) ==
    /\ ~v.sticky
    /\ \/ v.c = 0
       \/ LET tz == countr_zero(v.c)
              cc == v.c \div Pow2(tz)
          IN /\ ExponentOf(v) <= FP_EMAX
             /\ v.exp + tz >= FP_EXPMIN
             /\ bit_width(cc) <= FP_P

\* the real value handed to the kernel by the last operation
KernelInput ==
    IF last.op = "round_fixed" THEN ValueOfFixed(last.m, last.exp)
    ELSE ValueOfDouble(last.x)

KernelCall ==
    /\ last.op \in {"round", "round_fixed"}
    /\ (last.op = "round" => isfinite(last.x))

\* ------------------------------------------------------------------------
\* convert.hpp: make_float
\* ------------------------------------------------------------------------

\* make_float with the subnormal shift one too large
make_float_subnormal_shift_off_by_one(s, exp, c) ==
    IF c = 0 THEN (IF s THEN NEG_ZERO ELSE 0)
    ELSE
    LET p == bit_width(c)
        e == exp + (p - 1)
        shift == FP_P - p
        cn == IF shift > 0 THEN ShiftL(c, shift)
              ELSE IF shift < 0 THEN ShiftR(c, 0 - shift)
              ELSE c
        ebits == IF e < FP_EMIN THEN 0 ELSE e + FP_BIAS
        mbits == IF e < FP_EMIN THEN ShiftR(cn, FP_EMIN - e + 1)
                 ELSE cn % Pow2(FP_M)
        b == ShiftL(ebits, FP_M) + mbits
    IN IF s THEN Negate(b) ELSE b

\* make_float<double>(s, exp, c) for a value that a double holds exactly
make_float(s, exp, c) ==
    IF c = 0 THEN (IF s THEN NEG_ZERO ELSE 0)
    ELSE
    LET p == bit_width(c)
        e == exp + (p - 1)
        shift == FP_P - p
        cn == IF shift > 0 THEN ShiftL(c, shift)
              ELSE IF shift < 0 THEN ShiftR(c, 0 - shift)
              ELSE c
        ebits == IF e < FP_EMIN THEN 0 ELSE e + FP_BIAS
        mbits == IF e < FP_EMIN THEN ShiftR(cn, FP_EMIN - e) ELSE cn % Pow2(FP_M)
        b == ShiftL(ebits, FP_M) + mbits
    IN IF s THEN Negate(b) ELSE b

\* ------------------------------------------------------------------------
\* The host's IEEE 754 arithmetic: x + y, x * y, x / y, std::sqrt, std::fma
\* under the rounding mode of the control register ("RNE" by default,
\* "RTZ" inside the round-to-odd window) or of SoftFloat ("RTO")
\* ------------------------------------------------------------------------

\* the exact sum of two signed magnitudes with a common exponent
SignedSum(sa, ca, sb, cb, exp) ==
    LET a == IF sa THEN 0 - ca ELSE ca
        b == IF sb THEN 0 - cb ELSE cb
        t == a + b
    IN [s |-> IF t = 0 THEN sa /\ sb ELSE t < 0,
        c |-> IF t < 0 THEN 0 - t ELSE t,
        exp |-> exp, sticky |-> FALSE]

\* the exact sum of two signed magnitudes ux and uy, aligned to the lower
\* of their exponents
AlignedSum(ux, uy) ==
    LET exp == IF ux.exp < uy.exp THEN ux.exp ELSE uy.exp
    IN SignedSum(ux.s, ShiftL(ux.c, ux.exp - exp),
                 uy.s, ShiftL(uy.c, uy.exp - exp), exp)

\* x + y exactly, x and y finite
ExactAdd(x, y) == AlignedSum(unpack_float(x), unpack_float(y))

\* x * y exactly, x and y finite
ExactMul(x, y) ==
    LET ux == unpack_float(x)
        uy == unpack_float(y)
    IN [s |-> ux.s # uy.s, c |-> ux.c * uy.c, exp |-> ux.exp + uy.exp,
        sticky |-> FALSE]

\* x * y + z exactly, all finite
ExactFma(x, y, z) == AlignedSum(ExactMul(x, y), unpack_float(z))

\* fraction bits carried by an exact quotient or root: more than the two
\* guard bits any rounding of the format reads
ExtraBits == 2 * FP_P + 2

\* x / y to ExtraBits fraction bits and a sticky bit, x finite, y finite
\* and non-zero
ExactDiv(x, y) ==
    LET ux == unpack_float(x)
        uy == unpack_float(y)
        num == ShiftL(ux.c, ExtraBits)
    IN [s |-> ux.s # uy.s, c |-> num \div uy.c,
        exp |-> ux.exp - uy.exp - ExtraBits, sticky |-> num % uy.c # 0]

\* floor(sqrt(v)): r accumulates the root bit by bit, from bit b down
RECURSIVE isqrt_bits(_, _, _)
isqrt_bits(v, r, b) ==
    IF b < 0 THEN r
    ELSE LET t == r + Pow2(b)
         IN isqrt_bits(v, IF t * t <= v THEN t ELSE r, b - 1)

\* sqrt(x) to at least FP_P + 2 bits and a sticky bit, x finite and positive
ExactSqrt(x) ==
    LET ux == unpack_float(x)
        k == ExtraBits + ((ux.exp - ExtraBits) % 2)
        v == ShiftL(ux.c, k)
        r == isqrt_bits(v, 0, FP_P + ExtraBits)
    IN [s |-> FALSE, c |-> r, exp |-> (ux.exp - k) \div 2,
        sticky |-> r * r # v]

\* the largest finite double
MAX_FINITE == POS_INF - 1

\* The double delivered for the exact result v whose rounding to the
\* precision and the subnormal position of a double is r, and the inexact,
\* overflow and underflow exceptions raised (underflow: the result is
\* inexact and v lies below the normal range).
fpu_deliver(v, mode, r) ==
    LET inexact == v.sticky \/ ~SameMagnitude(v.c, v.exp, r.c, r.exp)
        overflow == r.c # 0 /\ ExponentOf(r) > FP_EMAX
        tiny == v.c # 0 /\ ExponentOf(v) < FP_EMIN
        mag == IF mode = "RNE" THEN POS_INF ELSE MAX_FINITE
    IN [val |-> IF overflow THEN (IF v.s THEN Negate(mag) ELSE mag)
                ELSE make_float(r.s, r.exp, r.c),
        inexact |-> inexact \/ overflow,
        overflow |-> overflow,
        underflow |-> inexact /\ tiny]

\* The exact result v rounded to a double under mode
fpu_round(v, mode) ==
    fpu_deliver(v, mode, RefRound(v, FP_P, Some(FP_EXPMIN - 1), mode))

\* a result the arithmetic delivers without rounding
fpu_exact(b) ==
    [val |-> b, inexact |-> FALSE, overflow |-> FALSE, underflow |-> FALSE]

\* x + y
fpu_add(x, y, mode) ==
    IF isnan(x) \/ isnan(y) THEN fpu_exact(QNAN)
    ELSE IF isinf(x) /\ isinf(y)
    THEN (IF signbit(x) = signbit(y) THEN fpu_exact(x) ELSE fpu_exact(QNAN))
    ELSE IF isinf(x) THEN fpu_exact(x)
    ELSE IF isinf(y) THEN fpu_exact(y)
    ELSE fpu_round(ExactAdd(x, y), mode)

\* x - y
fpu_sub(x, y, mode) == fpu_add(x, IF isnan(y) THEN y ELSE Negate(y), mode)

\* x * y
fpu_mul(x, y, mode) ==
    IF isnan(x) \/ isnan(y) THEN fpu_exact(QNAN)
    ELSE IF isinf(x) \/ isinf(y)
    THEN (IF IsZero(x) \/ IsZero(y) THEN fpu_exact(QNAN)
          ELSE fpu_exact(IF signbit(x) # signbit(y) THEN Negate(POS_INF)
                         ELSE POS_INF))
    ELSE fpu_round(ExactMul(x, y), mode)

\* x / y
fpu_div(x, y, mode) ==
    LET s == signbit(x) # signbit(y)
    IN IF isnan(x) \/ isnan(y) THEN fpu_exact(QNAN)
       ELSE IF isinf(x)
       THEN (IF isinf(y) THEN fpu_exact(QNAN)
             ELSE fpu_exact(IF s THEN Negate(POS_INF) ELSE POS_INF))
       ELSE IF isinf(y) THEN fpu_exact(IF s THEN NEG_ZERO ELSE 0)
       ELSE IF IsZero(y)
       THEN (IF IsZero(x) THEN fpu_exact(QNAN)
             ELSE fpu_exact(IF s THEN Negate(POS_INF) ELSE POS_INF))
       ELSE fpu_round(ExactDiv(x, y), mode)

\* std::sqrt(x)
fpu_sqrt(x, mode) ==
    IF isnan(x) THEN fpu_exact(QNAN)
    ELSE IF IsZero(x) THEN fpu_exact(x)
    ELSE IF signbit(x) THEN fpu_exact(QNAN)
    ELSE IF isinf(x) THEN fpu_exact(x)
    ELSE fpu_round(ExactSqrt(x), mode)

\* std::fma(x, y, z)
fpu_fma(x, y, z, mode) ==
    IF isnan(x) \/ isnan(y) \/ isnan(z) THEN fpu_exact(QNAN)
    ELSE IF isinf(x) \/ isinf(y)
    THEN (IF IsZero(x) \/ IsZero(y) THEN fpu_exact(QNAN)
          ELSE LET pinf == IF signbit(x) # signbit(y) THEN Negate(POS_INF)
                           ELSE POS_INF
               IN IF isinf(z) /\ z # pinf THEN fpu_exact(QNAN)
                  ELSE fpu_exact(pinf))
    ELSE IF isinf(z) THEN fpu_exact(z)
    ELSE fpu_round(ExactFma(x, y, z), mode)

\* b |= 1
jam_lsb(b) == IF b % 2 = 0 THEN b + 1 ELSE b

\* -x on a double
fneg(x) == Negate(x)

\* ------------------------------------------------------------------------
\* engine_fp.hpp: round-to-odd through the FPU's round-toward-zero mode.
\* Each engine result is [ok, val]; ok is FALSE when a debug assertion of
\* the engine fails.
\* ------------------------------------------------------------------------

\* finalize(result, fexps)
engine_fp_finalize(h) ==
    [ok |-> ~(h.overflow \/ h.underflow),
     val |-> IF h.inexact THEN jam_lsb(h.val) ELSE h.val]

\* the engine's result f guarded by the precision assertion at its entry
engine_checked(p, f) == [ok |-> p <= FP_P /\ f.ok, val |-> f.val]

\* engine_fp::add, sub, mul, div, sqrt, fma: h is what the native operation
\* delivers between prepare_rto() and rto_status(), under round toward zero
engine_fp(p, h) == engine_checked(p, engine_fp_finalize(h))

\* ------------------------------------------------------------------------
\* engine_sf.cpp: SoftFloat under softfloat_round_odd
\* ------------------------------------------------------------------------

\* h is what the f64_ operation delivers under softfloat_round_odd
engine_sf(p, h) == [ok |-> p <= FP_P, val |-> h.val]

\* ------------------------------------------------------------------------
\* engine_ff.hpp: FloppyFloat under kRoundTowardZero, LSB set when inexact
\* ------------------------------------------------------------------------

\* h is what the FloppyFloat operation delivers under kRoundTowardZero
engine_ff(p, h) ==
    [ok |-> p <= FP_P, val |-> IF h.inexact THEN jam_lsb(h.val) ELSE h.val]

\* ------------------------------------------------------------------------
\* engine_fpe.hpp: the native operation, asserted exact
\* ------------------------------------------------------------------------

\* h is what the native operation delivers under the default rounding mode
engine_fpe(p, h) ==
    [ok |-> p <= FP_P /\ ~(h.inexact \/ h.overflow), val |-> h.val]

engine_fpe_mul(x, y, p) == engine_fpe(p, fpu_mul(x, y, "RNE"))

\* ------------------------------------------------------------------------
\* engine_fx.hpp: the product as a fixed-point number m * 2^exp
\* ------------------------------------------------------------------------

\* minimize leaving the exponent as it was
minimize_significand_only(c, exp) ==
    LET tz == IF c = 0 THEN FX_PREC + 1 ELSE countr_zero(c)
    IN [c |-> IF c = 0 THEN 0 ELSE ShiftR(c, tz), exp |-> exp]

\* minimize(c, exp); std::countr_zero(0) is the width of the type, and a
\* zero c stays zero whatever the shift by that width delivers
minimize(c, exp) ==
    LET tz == IF c = 0 THEN FX_PREC + 1 ELSE countr_zero(c)
    IN [c |-> IF c = 0 THEN 0 ELSE ShiftR(c, tz), exp |-> exp + tz]

\* engine_fx::mul; ok is FALSE when xm * ym leaves the signed type
engine_fx_mul(x, y, p) ==
    LET ux == unpack_float(x)
        uy == unpack_float(y)
        mx == minimize(ux.c, ux.exp)
        my == minimize(uy.c, uy.exp)
        xm == IF ux.s THEN 0 - mx.c ELSE mx.c
        ym == IF uy.s THEN 0 - my.c ELSE my.c
        m == xm * ym
    IN [ok |-> p <= FX_PREC /\ m >= FX_MIN_VAL /\ m < Pow2(FX_PREC),
        m |-> m, exp |-> mx.exp + my.exp]

\* ------------------------------------------------------------------------
\* engine_eft.hpp: round-to-odd through error-free transformations, every
\* native operation under the default rounding mode (to nearest even)
\* ------------------------------------------------------------------------

\* std::fabs(x) < std::fabs(y)
fabs_less(x, y) == ~isnan(x) /\ ~isnan(y) /\ fabs(x) < fabs(y)

\* x == 0.0
is_zero(x) == ~isnan(x) /\ IsZero(x)

\* round_finalize(high, low)
eft_round_finalize(high, low) ==
    IF is_zero(low) THEN [ok |-> isfinite(high) /\ isfinite(low), val |-> high]
    ELSE
    LET sign_high == IF signbit(high) THEN 1 ELSE 0
        sign_diff == signbit(high) # signbit(low)
        adjust == IF sign_diff THEN 2 * sign_high - 1 ELSE 0
        result == (high + adjust) % Pow2(FP_N)
    IN [ok |-> isfinite(high) /\ isfinite(low), val |-> jam_lsb(result)]

\* const T s = a + b; const T yy = s - a; const T t = b - yy;
two_sum_error(a, b, s) ==
    <<s, fpu_sub(b, fpu_sub(s, a, "RNE").val, "RNE").val>>

two_sum_ordered(a, b) == two_sum_error(a, b, fpu_add(a, b, "RNE").val)

two_sum(x, y) ==
    LET swap == fabs_less(x, y)
    IN two_sum_ordered(IF swap THEN y ELSE x, IF swap THEN x ELSE y)

\* const T e = std::fma(x, y, -p);
two_prod_error(x, y, p) == <<p, fpu_fma(x, y, fneg(p), "RNE").val>>

two_prod(x, y) == two_prod_error(x, y, fpu_mul(x, y, "RNE").val)

\* const T r = -std::fma(q, y, -x) / y;
two_div_error(x, y, q) ==
    <<q, fpu_div(fneg(fpu_fma(q, y, fneg(x), "RNE").val), y, "RNE").val>>

two_div(x, y) == two_div_error(x, y, fpu_div(x, y, "RNE").val)

\* n = std::fma(-r1, r1, x); d = 2 * r1; r2 = n / d;
two_sqrt_error(x, r1) ==
    <<r1, fpu_div(fpu_fma(fneg(r1), r1, x, "RNE").val,
                  fpu_mul(make_float(FALSE, 1, 1), r1, "RNE").val,
                  "RNE").val>>

two_sqrt(x) == two_sqrt_error(x, fpu_sqrt(x, "RNE").val)

\* g = (b1 - r1) + b2; r2 = g + a2;
eft_fma_error(r1, a, b) ==
    <<r1, fpu_add(fpu_add(fpu_sub(b[1], r1, "RNE").val, b[2], "RNE").val,
                  a[2], "RNE").val>>

\* [b1, b2] = two_sum(u1, a1)
eft_fma_sum(r1, u, a) == eft_fma_error(r1, a, two_sum(u[1], a[1]))

\* [a1, a2] = two_sum(z, u2)
eft_fma_prod(r1, z, u) == eft_fma_sum(r1, u, two_sum(z, u[2]))

eft_fma(x, y, z) ==
    eft_fma_prod(fpu_fma(x, y, z, "RNE").val, z, two_prod(x, y))

\* round_finalize applied to the pair an error-free transformation returns
eft_finalize(hl) == eft_round_finalize(hl[1], hl[2])

\* a special value handed to the native operation, which delivers h
eft_native(h) == [ok |-> TRUE, val |-> h.val]

engine_eft_add(x, y, p) ==
    engine_checked(p,
        IF ~isfinite(x) \/ ~isfinite(y)
        THEN eft_native(fpu_add(x, y, "RNE"))
        ELSE eft_finalize(two_sum(x, y)))

engine_eft_sub(x, y, p) ==
    engine_checked(p,
        IF ~isfinite(x) \/ ~isfinite(y)
        THEN eft_native(fpu_sub(x, y, "RNE"))
        ELSE eft_finalize(two_sum(x, fneg(y))))

engine_eft_mul(x, y, p) ==
    engine_checked(p,
        IF ~isfinite(x) \/ ~isfinite(y)
        THEN eft_native(fpu_mul(x, y, "RNE"))
        ELSE eft_finalize(two_prod(x, y)))

engine_eft_div(x, y, p) ==
    engine_checked(p,
        IF ~isfinite(x) \/ ~isfinite(y) \/ is_zero(y)
        THEN eft_native(fpu_div(x, y, "RNE"))
        ELSE eft_finalize(two_div(x, y)))

engine_eft_sqrt(x, p) ==
    engine_checked(p,
        IF ~isfinite(x) \/ is_zero(x) \/ signbit(x)
        THEN eft_native(fpu_sqrt(x, "RNE"))
        ELSE eft_finalize(two_sqrt(x)))

engine_eft_fma(x, y, z, p) ==
    engine_checked(p,
        IF ~isfinite(x) \/ ~isfinite(y) \/ ~isfinite(z)
        THEN eft_native(fpu_fma(x, y, z, "RNE"))
        ELSE eft_finalize(eft_fma(x, y, z)))

\* ------------------------------------------------------------------------
\* ops.hpp: the operations of the library. Each result is [ok, val, flags,
\* r]: ok is FALSE when a debug assertion fails on the way, val is the
\* returned double, flags the register on return, r the engine's result.
\* ------------------------------------------------------------------------

\* the engines every operation is written for
Engines == {"FP_RTO", "SOFTFLOAT", "FFLOAT", "EFT"}

\* the engines mul is written for
MulEngines == Engines \cup {"FP_EXACT", "FIXED"}

\* the if constexpr chain over E shared by the operations: rtz and rto are
\* what the host operation delivers rounding toward zero and to odd, eft is
\* the result of the error-free transformation
engine_dispatch(E, p, rtz, rto, eft) ==
    CASE E = "FP_RTO" -> engine_fp(p, rtz)
      [] E = "SOFTFLOAT" -> engine_sf(p, rto)
      [] E = "FFLOAT" -> engine_ff(p, rtz)
      [] E = "EFT" -> eft

\* the result of an operation: the engine's outcome e and the rounding k
with_engine(e, k) ==
    [ok |-> e.ok, val |-> k.val, flags |-> k.flags, r |-> e.val]

\* const double r = engine::op(..., ctx.round_prec()); result = ctx.round(r);
engine_then_round(f, ctx, e) ==
    with_engine(e, Context_round(ALL_FLAGS, f, ctx, e.val))

\* the same through the exact engine
exact_then_round(f, x, y, ctx) ==
    engine_then_round(f, ctx, engine_fpe_mul(x, y, round_prec(ctx)))

\* the rounding k of a fixed-point product
with_fixed(k) == [ok |-> TRUE, val |-> k.val, flags |-> k.flags, r |-> k.kval]

\* auto [m, exp] = engine_fx::mul(x, y, p); result = ctx.round(m, exp);
fixed_then_round(f, ctx, e) ==
    IF e.ok
    THEN with_fixed(Context_round_fixed(ALL_FLAGS, f, ctx, e.m, e.exp))
    ELSE [ok |-> FALSE, val |-> 0, flags |-> f, r |-> 0]

\* flags.set_invalid() under FlagMask & Flags::INVALID
raise_invalid(FlagMask, q, cond) ==
    [q EXCEPT !.flags = raise_if("invalid" \in FlagMask /\ cond,
                                 set_invalid, q.flags)]

\* round(x, ctx)
ops_round(f, x, ctx) ==
    with_engine([ok |-> TRUE, val |-> x], Context_round(ALL_FLAGS, f, ctx, x))

\* neg(x, ctx)
neg(f, x, ctx) == ops_round(f, fneg(x), ctx)

\* abs(x, ctx)
abs(f, x, ctx) == ops_round(f, fabs(x), ctx)

\* the check of add with the signs of the two infinities compared with ==
add_invalid_same_sign(FlagMask, x, y, q) ==
    raise_invalid(FlagMask, q,
        isnan(q.val) /\ isinf(x) /\ isinf(y) /\ signbit(x) = signbit(y))

\* add: check for special values to raise status flags
add_invalid(FlagMask, x, y, q) ==
    raise_invalid(FlagMask, q,
        isnan(q.val) /\ isinf(x) /\ isinf(y) /\ signbit(x) # signbit(y))

add(E, FlagMask, f, x, y, ctx) ==
    add_invalid(FlagMask, x, y,
        engine_then_round(f, ctx,
            engine_dispatch(E, round_prec(ctx),
                fpu_add(x, y, "RTZ"), fpu_add(x, y, "RTO"),
                engine_eft_add(x, y, round_prec(ctx)))))

\* sub: check for special values to raise status flags
sub_invalid(FlagMask, x, y, q) ==
    raise_invalid(FlagMask, q,
        isnan(q.val) /\ isinf(x) /\ isinf(y) /\ signbit(x) = signbit(y))

sub(E, FlagMask, f, x, y, ctx) ==
    sub_invalid(FlagMask, x, y,
        engine_then_round(f, ctx,
            engine_dispatch(E, round_prec(ctx),
                fpu_sub(x, y, "RTZ"), fpu_sub(x, y, "RTO"),
                engine_eft_sub(x, y, round_prec(ctx)))))

\* mul: check for special values to raise status flags
mul_invalid(FlagMask, x, y, q) ==
    raise_invalid(FlagMask, q,
        isnan(q.val) /\ ((is_zero(x) /\ isinf(y)) \/ (isinf(x) /\ is_zero(y))))

mul(E, FlagMask, f, x, y, ctx) ==
    mul_invalid(FlagMask, x, y,
        IF E = "FP_EXACT" \/ (E = "FIXED" /\ ~(isfinite(x) /\ isfinite(y)))
        THEN exact_then_round(f, x, y, ctx)
        ELSE IF E = "FIXED"
        THEN fixed_then_round(f, ctx, engine_fx_mul(x, y, round_prec(ctx)))
        ELSE engine_then_round(f, ctx,
                 engine_dispatch(E, round_prec(ctx),
                     fpu_mul(x, y, "RTZ"), fpu_mul(x, y, "RTO"),
                     engine_eft_mul(x, y, round_prec(ctx)))))

\* div with the divide-by-zero test reduced to the divisor
div_status_zero_divisor_only(FlagMask, x, y, q) ==
    raise_invalid(FlagMask,
        [q EXCEPT !.flags =
            raise_if("div_by_zero" \in FlagMask /\ is_zero(y),
                     set_div_by_zero, q.flags)],
        isnan(q.val) /\ ((is_zero(x) /\ is_zero(y)) \/ (isinf(x) /\ isinf(y))))

\* div: check for special values to raise status flags
div_status(FlagMask, x, y, q) ==
    raise_invalid(FlagMask,
        [q EXCEPT !.flags =
            raise_if("div_by_zero" \in FlagMask /\ isfinite(x) /\ ~is_zero(x)
                         /\ is_zero(y),
                     set_div_by_zero, q.flags)],
        isnan(q.val) /\ ((is_zero(x) /\ is_zero(y)) \/ (isinf(x) /\ isinf(y))))

div(E, FlagMask, f, x, y, ctx) ==
    div_status(FlagMask, x, y,
        engine_then_round(f, ctx,
            engine_dispatch(E, round_prec(ctx),
                fpu_div(x, y, "RTZ"), fpu_div(x, y, "RTO"),
                engine_eft_div(x, y, round_prec(ctx)))))

\* sqrt: check for special values to raise status flags
sqrt_invalid(FlagMask, x, q) ==
    raise_invalid(FlagMask, q,
        isnan(q.val) /\ isfinite(x) /\ signbit(x) /\ ~is_zero(x))

sqrt(E, FlagMask, f, x, ctx) ==
    sqrt_invalid(FlagMask, x,
        engine_then_round(f, ctx,
            engine_dispatch(E, round_prec(ctx),
                fpu_sqrt(x, "RTZ"), fpu_sqrt(x, "RTO"),
                engine_eft_sqrt(x, round_prec(ctx)))))

\* fma: check for special values to raise status flags
fma_invalid(FlagMask, x, y, z, q) ==
    raise_invalid(FlagMask, q,
        isnan(q.val) /\
        IF (is_zero(x) /\ isinf(y)) \/ (isinf(x) /\ is_zero(y)) THEN TRUE
        ELSE IF (isinf(x) /\ ~isnan(y)) \/ (isinf(y) /\ ~isnan(x))
        THEN isinf(z) /\ signbit(fpu_mul(x, y, "RNE").val) # signbit(z)
        ELSE FALSE)

fma(E, FlagMask, f, x, y, z, ctx) ==
    fma_invalid(FlagMask, x, y, z,
        engine_then_round(f, ctx,
            engine_dispatch(E, round_prec(ctx),
                fpu_fma(x, y, z, "RTZ"), fpu_fma(x, y, z, "RTO"),
                engine_eft_fma(x, y, z, round_prec(ctx)))))

\* ------------------------------------------------------------------------
\* Arithmetic operations as steps
\* ------------------------------------------------------------------------

\* operands of the arithmetic operations: zeros, infinities, NaN, and the
\* finite doubles of the subnormal range and of the binades of 1.0 and 2.0
\* with three significand patterns each
OpDoubles ==
    {b \in Doubles :
        \/ ~isfinite(b)
        \/ IsZero(b)
        \/ /\ EBitsOf(b) \in {0, FP_BIAS, FP_BIAS + 1}
           /\ MBitsOf(b) \in {0, 3, 5}}

\* factors of fma
FmaFactors ==
    {b \in OpDoubles : isfinite(b) => (MBitsOf(b) = 5 /\ EBitsOf(b) >= FP_BIAS)}

\* addends of fma
FmaAddends ==
    {b \in OpDoubles : isfinite(b) => (MBitsOf(b) = 3 \/ IsZero(b))}

\* positions n of the arithmetic contexts
OpPositions == {None, Some(FP_EMIN + 1)}

\* contexts of the arithmetic operations: no overflow threshold
OpContexts ==
    {Context(p, n, NoMax, rm) :
        p \in Precs, n \in OpPositions, rm \in RoundingMode}

\* the step of an operation whose assertions hold, the first of them being
\* that the engine can deliver round_prec() bits
Perform(q, name, E, x, y, z, ctx) ==
    /\ round_prec(ctx) <= (IF E = "FIXED" THEN FX_PREC ELSE FP_P)
    /\ q.ok
    /\ flags' = q.flags
    /\ last' = [Blank EXCEPT !.op = name, !.engine = E, !.x = x, !.y = y,
                             !.z = z, !.ctx = ctx, !.r = q.r, !.res = q.val]
    /\ fpscr' = engine_fpscr(E, fpscr)

Add(E, x, y, ctx) ==
    Perform(add(E, ALL_FLAGS, flags, x, y, ctx), "add", E, x, y, 0, ctx)

Sub(E, x, y, ctx) ==
    Perform(sub(E, ALL_FLAGS, flags, x, y, ctx), "sub", E, x, y, 0, ctx)

Mul(E, x, y, ctx) ==
    Perform(mul(E, ALL_FLAGS, flags, x, y, ctx), "mul", E, x, y, 0, ctx)

Div(E, x, y, ctx) ==
    Perform(div(E, ALL_FLAGS, flags, x, y, ctx), "div", E, x, y, 0, ctx)

Sqrt(E, x, ctx) ==
    Perform(sqrt(E, ALL_FLAGS, flags, x, ctx), "sqrt", E, x, 0, 0, ctx)

Fma(E, x, y, z, ctx) ==
    Perform(fma(E, ALL_FLAGS, flags, x, y, z, ctx), "fma", E, x, y, z, ctx)

Neg(x, ctx) == Perform(neg(flags, x, ctx), "neg", "none", x, 0, 0, ctx)

Abs(x, ctx) == Perform(abs(flags, x, ctx), "abs", "none", x, 0, 0, ctx)

\* Context::Context: the construction returns when its assertions hold; the
\* check of maxval rounds it under NO_FLAGS
Construct(p, n, maxval, rm) ==
    LET ctx == Context(p, n, maxval, rm)
    IN /\ ctx.ok
       /\ flags' = IF maxval.has
                   THEN round(NO_FLAGS, flags, maxval.val, p, n, rm).flags
                   ELSE flags
       /\ last' = [Blank EXCEPT !.op = "construct", !.ctx = ctx]
       /\ UNCHANGED fpscr

\* the six arithmetic operations, each call on a reset register
NextOps ==
    \/ Reset
    \/ Ready /\ \E E \in Engines, x \in OpDoubles, y \in OpDoubles,
                   ctx \in OpContexts : Add(E, x, y, ctx)
    \/ Ready /\ \E E \in Engines, x \in OpDoubles, y \in OpDoubles,
                   ctx \in OpContexts : Sub(E, x, y, ctx)
    \/ Ready /\ \E E \in MulEngines, x \in OpDoubles, y \in OpDoubles,
                   ctx \in OpContexts : Mul(E, x, y, ctx)
    \/ Ready /\ \E E \in Engines, x \in OpDoubles, y \in OpDoubles,
                   ctx \in OpContexts : Div(E, x, y, ctx)
    \/ Ready /\ \E E \in Engines, x \in Doubles, ctx \in OpContexts :
                   Sqrt(E, x, ctx)
    \/ Ready /\ \E E \in Engines, x \in FmaFactors, y \in FmaFactors,
                   z \in FmaAddends, ctx \in OpContexts : Fma(E, x, y, z, ctx)

SpecOps == Init /\ [][NextOps]_vars

\* ------------------------------------------------------------------------
\* Sequences of library calls on one register
\* ------------------------------------------------------------------------

\* first operands of a sequence: +0, -inf and 1.375
SeqDoubles ==
    {b \in OpDoubles :
        \/ b \in {0, Negate(POS_INF)}
        \/ /\ ~signbit(b)
           /\ isfinite(b)
           /\ EBitsOf(b) = FP_BIAS
           /\ MBitsOf(b) = 3}

\* second and third operands of a sequence: +0 and 1.375
SeqSeconds == {b \in SeqDoubles : isfinite(b)}

\* contexts of a sequence: one bit with the overflow threshold 1.0, and two
\* bits above a position n
SeqContexts ==
    {Context(1, None, SomeMax(ShiftL(FP_BIAS, FP_M)), "RAZ"),
     Context(2, Some(FP_EMIN + 1), NoMax, "RTZ")}

\* engines of a sequence: the hardware engine, the error-free
\* transformations, and fixed point for mul
SeqEngines == {"FP_RTO", "EFT"}

\* any library call follows any other; only reset() intervenes between them
\* when the program calls it
Next ==
    \/ Reset
    \/ \E x \in SeqDoubles, ctx \in SeqContexts : CtxRound(x, ctx)
    \/ \E x \in SeqDoubles, ctx \in SeqContexts : Neg(x, ctx)
    \/ \E x \in SeqDoubles, ctx \in SeqContexts : Abs(x, ctx)
    \/ \E E \in SeqEngines, x \in SeqDoubles, y \in SeqSeconds,
          ctx \in SeqContexts : Add(E, x, y, ctx)
    \/ \E E \in SeqEngines, x \in SeqDoubles, y \in SeqSeconds,
          ctx \in SeqContexts : Sub(E, x, y, ctx)
    \/ \E E \in SeqEngines \cup {"FIXED"}, x \in SeqDoubles, y \in SeqSeconds,
          ctx \in SeqContexts : Mul(E, x, y, ctx)
    \/ \E E \in SeqEngines, x \in SeqDoubles, y \in SeqSeconds,
          ctx \in SeqContexts : Div(E, x, y, ctx)
    \/ \E E \in SeqEngines, x \in SeqDoubles, ctx \in SeqContexts :
          Sqrt(E, x, ctx)
    \/ \E E \in SeqEngines, x \in SeqSeconds, z \in SeqSeconds,
          ctx \in SeqContexts : Fma(E, x, x, z, ctx)
    \/ \E maxval \in MaxvalChoices(1) \cup {NoMax} :
          Construct(1, None, maxval, "RNE")

Spec == Init /\ [][Next]_vars

\* ------------------------------------------------------------------------
\* C1
\* ------------------------------------------------------------------------

\* C1 as stated: for every finite input (double or fixed-point), every p,
\* every n and every rounding mode, the kernel returns the correctly rounded
\* value, with the sign of the input on a zero result.
C1_AsStated ==
    KernelCall =>
        DoubleIsValue(last.res,
                      RefRound(KernelInput, last.ctx.p, last.ctx.n, last.ctx.rm))

\* C1 amended: the kernel returns the correctly rounded value whenever that
\* value is representable as a double.
C1_CorrectWhenRepresentable ==
    KernelCall =>
        LET ref == RefRound(KernelInput, last.ctx.p, last.ctx.n, last.ctx.rm)
        IN FitsDouble(ref) => DoubleIsValue(last.res, ref)

\* an inexact rounding of a double and one of a fixed-point value, each
\* with a representable result that differs from the input
C1_Witness ==
    /\ KernelCall
    /\ last.op = "round_fixed"
    /\ last.ctx.n.has
    /\ "inexact" \in flags
    /\ "carry" \in flags
    /\ FitsDouble(RefRound(KernelInput, last.ctx.p, last.ctx.n, last.ctx.rm))

\* ------------------------------------------------------------------------
\* C4 - C8: the flags of one round(x, p, n, rm) from a reset register
\* ------------------------------------------------------------------------

\* std::ilogb of a double: floor(log2 |b|) for a finite non-zero b
\* (FP_ILOGB0 for zero, INT_MAX for an infinity)
ilogb(b) ==
    IF isinf(b) THEN Pow2(30) + (Pow2(30) - 1)
    ELSE IF IsZero(b) THEN 0 - Pow2(30) - Pow2(30)
    ELSE LET u == unpack_float(b) IN u.exp + bit_width(u.c) - 1

\* the last operation was round(x, p, n, rm) on a finite double
RoundCall == last.op = "round" /\ isfinite(last.x)

\* round(x, p, nullopt, rm) of the last call, as the tests compute y_unbound
y_unbound ==
    round(NO_FLAGS, {}, last.x, last.ctx.p, None, last.ctx.rm).val

\* n + p of the last call
emin_of_last == last.ctx.n.val + last.ctx.p

C5_AsStated ==
    (RoundCall /\ last.ctx.n.has) =>
        (("tiny_after" \in flags) <=>
            (IsZero(y_unbound) \/ ilogb(y_unbound) < emin_of_last))

\* C6 as stated: with n present, carry is raised iff x != 0, y != 0,
\* ilogb(y) > ilogb(x) and ilogb(x) >= n + p.
C6_AsStated ==
    (RoundCall /\ last.ctx.n.has) =>
        (("carry" \in flags) <=>
            /\ ~IsZero(last.x)
            /\ ~IsZero(last.res)
            /\ ilogb(last.res) > ilogb(last.x)
            /\ ilogb(last.x) >= emin_of_last)

\* C7 as stated: tiny_before is raised iff x == 0 or ilogb(x) < n + p
\* (only x == 0 when n is absent).
C7_AsStated ==
    RoundCall =>
        (("tiny_before" \in flags) <=>
            (IsZero(last.x) \/ (last.ctx.n.has /\ ilogb(last.x) < emin_of_last)))

\* C8: underflow_T is set iff inexact and tiny_T are both set, for T in
\* {before, after}.
C8_UnderflowIffInexactAndTiny ==
    last.op = "round" =>
        /\ ("underflow_before" \in flags) <=>
               ("inexact" \in flags /\ "tiny_before" \in flags)
        /\ ("underflow_after" \in flags) <=>
               ("inexact" \in flags /\ "tiny_after" \in flags)

\* C5 amended: the same equivalence whenever y_unbound is finite.
C5_TinyAfterWhenUnboundFinite ==
    (RoundCall /\ last.ctx.n.has /\ isfinite(y_unbound)) =>
        (("tiny_after" \in flags) <=>
            (IsZero(y_unbound) \/ ilogb(y_unbound) < emin_of_last))

\* ------------------------------------------------------------------------
\* C9: overflow against maxval
\* ------------------------------------------------------------------------

\* the last operation was ctx.round(x) on a finite double, maxval present
CtxRoundCall ==
    last.op = "ctx_round" /\ last.ctx.maxval.has /\ isfinite(last.x)

\* |b| > maxval on the bit patterns of a finite double b and a finite,
\* non-negative maxval (the patterns of non-negative doubles are ordered
\* as their values)
MagnitudeExceeds(b, maxval) == (b % FP_SMASK) > maxval

C5_Witness ==
    /\ RoundCall
    /\ last.ctx.n.has
    /\ "tiny_before" \in flags
    /\ "tiny_after" \in flags
    /\ "inexact" \in flags
    /\ isfinite(y_unbound)
    /\ ~IsZero(y_unbound)
    /\ ilogb(y_unbound) = emin_of_last - 1
    /\ ilogb(last.x) = emin_of_last - 1

\* a rounding that carries into the next binade above 2^emin
C6_Witness ==
    /\ RoundCall
    /\ last.ctx.n.has
    /\ "carry" \in flags
    /\ isfinite(last.res)
    /\ ilogb(last.res) = ilogb(last.x) + 1
    /\ ilogb(last.x) >= emin_of_last

\* a non-zero x below 2^emin
C7_Witness ==
    /\ RoundCall
    /\ last.ctx.n.has
    /\ ~IsZero(last.x)
    /\ "tiny_before" \in flags
    /\ ilogb(last.x) < emin_of_last

\* tiny before but not after rounding, inexact: underflow_before alone
C8_Witness ==
    /\ last.op = "round"
    /\ "underflow_before" \in flags
    /\ "underflow_after" \notin flags
    /\ "tiny_before" \in flags
    /\ "inexact" \in flags

ArithOps == {"add", "sub", "mul", "div", "sqrt", "fma"}

\* the last operation was arithmetic on operands with a real result
ArithCall ==
    /\ last.op \in ArithOps
    /\ isfinite(last.x)
    /\ (last.op # "sqrt" => isfinite(last.y))
    /\ (last.op = "fma" => isfinite(last.z))
    /\ (last.op = "div" => ~IsZero(last.y))
    /\ (last.op = "sqrt" => (IsZero(last.x) \/ ~signbit(last.x)))

\* the exact real result of the last operation
ExactResult ==
    CASE last.op = "add" -> ExactAdd(last.x, last.y)
      [] last.op = "sub" -> ExactAdd(last.x, Negate(last.y))
      [] last.op = "mul" -> ExactMul(last.x, last.y)
      [] last.op = "div" -> ExactDiv(last.x, last.y)
      [] last.op = "sqrt" -> ExactSqrt(fabs(last.x))
      [] last.op = "fma" -> ExactFma(last.x, last.y, last.z)

\* v neither overflows nor underflows in double precision
InDoubleRange(v) ==
    v.c = 0 \/ (ExponentOf(v) >= FP_EMIN /\ ExponentOf(v) <= FP_EMAX)

\* the double b has the real value v (a zero of either sign for zero)
DoubleHasValue(b, v) ==
    /\ isfinite(b)
    /\ ~v.sticky
    /\ LET u == unpack_float(b)
       IN SameMagnitude(u.c, u.exp, v.c, v.exp) /\ (v.c # 0 => u.s = v.s)

\* C2: for every engine and operation, finite inputs whose exact result
\* neither overflows nor underflows, every rm, n and p: the kernel's
\* rounding of the engine's round-to-odd intermediate at (p, n, rm) is the
\* exact result rounded once at (p, n, rm) (compared wherever that value is
\* a double).
C2_TwoStepEqualsOneStep ==
    (ArithCall /\ InDoubleRange(ExactResult) /\ last.ctx.p <= FP_P) =>
        LET ref == RefRound(ExactResult, last.ctx.p, last.ctx.n, last.ctx.rm)
        IN FitsDouble(ref) => DoubleHasValue(last.res, ref)


\* a state in which the EFT engine's two-step result differs from the exact
\* result rounded once
C2_Diverges ==
    /\ last.engine = "EFT"
    /\ ~C2_TwoStepEqualsOneStep

\* ------------------------------------------------------------------------
\* C3: the register only accumulates
\* ------------------------------------------------------------------------

\* C3: over any sequence of round, neg, abs, add, sub, mul, div, sqrt, fma
\* and context constructions, every flag raised stays raised; only reset()
\* clears the register.
C3_FlagsOnlyClearedByReset ==
    [][last'.op # "reset" => flags \subseteq flags']_vars

\* flags of three earlier calls are still raised after a later abs
C3_Witness ==
    /\ last.op = "abs"
    /\ {"invalid", "div_by_zero", "overflow", "inexact"} \subseteq flags

\* ------------------------------------------------------------------------
\* C10: the invalid flag
\* ------------------------------------------------------------------------

\* the invalid case of the last arithmetic operation
InvalidCase ==
    LET x == last.x
        y == last.y
        z == last.z
        zero_times_inf ==
            (IsZero(x) /\ isinf(y)) \/ (isinf(x) /\ IsZero(y))
    IN CASE last.op = "add" -> isinf(x) /\ isinf(y) /\ SignOf(x) # SignOf(y)
         [] last.op = "sub" -> isinf(x) /\ isinf(y) /\ SignOf(x) = SignOf(y)
         [] last.op = "mul" -> zero_times_inf
         [] last.op = "div" ->
                (IsZero(x) /\ IsZero(y)) \/ (isinf(x) /\ isinf(y))
         [] last.op = "sqrt" -> isfinite(x) /\ SignOf(x) /\ ~IsZero(x)
         [] last.op = "fma" ->
                \/ zero_times_inf
                \/ /\ isinf(x) \/ isinf(y)
                   /\ ~isnan(x) /\ ~isnan(y)
                   /\ isinf(z)
                   /\ (SignOf(x) # SignOf(y)) # SignOf(z)

\* C10: an arithmetic operation raises invalid exactly in its invalid case
\* (inf - inf for add and sub, 0 * inf for mul, 0 / 0 or inf / inf for div,
\* a finite negative operand for sqrt, 0 * inf + z or an infinite product
\* plus the opposite infinity for fma), never merely for a NaN operand.
C10_InvalidIffInvalidCase ==
    last.op \in ArithOps => (("invalid" \in flags) <=> InvalidCase)

\* inf + -inf raised invalid
C10_Witness ==
    /\ last.op = "add"
    /\ isinf(last.x)
    /\ isinf(last.y)
    /\ isnan(last.res)
    /\ "invalid" \in flags

\* ------------------------------------------------------------------------
\* C11: the div_by_zero flag
\* ------------------------------------------------------------------------

\* C11: div on a reset register raises div_by_zero exactly when x is finite
\* and nonzero and y is +0 or -0: not for 0/0, inf/0 or NaN/0, and whether
\* or not the result is NaN.
C11_DivByZeroIffFiniteNonzeroOverZero ==
    last.op = "div" =>
        (("div_by_zero" \in flags)
            <=> (isfinite(last.x) /\ ~IsZero(last.x) /\ IsZero(last.y)))

\* a finite nonzero x divided by -0 raised div_by_zero and nothing else
C11_Witness ==
    /\ last.op = "div"
    /\ isfinite(last.x)
    /\ ~IsZero(last.x)
    /\ last.y = NEG_ZERO
    /\ isinf(last.res)
    /\ flags = {"div_by_zero"}

\* ------------------------------------------------------------------------
\* Calls with a flag mask
\* ------------------------------------------------------------------------

\* the masks of the calls: every flag, no flag, and each flag alone
MaskChoices == {NO_FLAGS, ALL_FLAGS} \cup {{fl} : fl \in ALL_FLAGS}

\* the masks of the arithmetic calls
OpMaskChoices == {NO_FLAGS, ALL_FLAGS, {"invalid"}, {"div_by_zero"}}

\* contexts of the masked calls: one and two bits, with and without a
\* position n, with and without the overflow threshold 2.0
MaskContexts ==
    {Context(p, n, mv, rm) :
        p \in {1, 2}, n \in OpPositions, rm \in RoundingMode,
        mv \in {NoMax, SomeMax(ShiftL(FP_BIAS + 1, FP_M))}}

\* fixed-point exponents of the masked calls: the least subnormal bit, the
\* unit, and the top binade
MaskExponents == {FP_EXPMIN, 0, FP_EMAX - FX_PREC + 2}

\* operands of the masked arithmetic calls: +0, -inf, 1.375 and NaN
MaskOperands == SeqDoubles \cup {QNAN}

\* a call that fills the register before a masked call: 1.375 rounded to one
\* bit away from zero under the overflow threshold 1.0
IsSeed ==
    /\ last.op = "ctx_round"
    /\ last.mask = ALL_FLAGS
    /\ last.x = ShiftL(FP_BIAS, FP_M) + 3
    /\ last.ctx = Context(1, None, SomeMax(ShiftL(FP_BIAS, FP_M)), "RAZ")

\* a masked call is made on a reset register or after the filling call
CallSite == (flags = {} /\ last.op = "reset") \/ IsSeed

\* ctx.round<FlagMask>(x)
CtxRoundMasked(FlagMask, x, ctx) ==
    LET r == Context_round(FlagMask, flags, ctx, x)
    IN /\ ctx.ok
       /\ flags' = r.flags
       /\ last' = [Blank EXCEPT !.op = "ctx_round", !.x = x, !.ctx = ctx,
                                !.kval = r.kval, !.res = r.val,
                                !.mask = FlagMask]
       /\ UNCHANGED fpscr

\* ctx.round<FlagMask>(m, exp)
CtxRoundFixedMasked(FlagMask, m, exp, ctx) ==
    LET r == Context_round_fixed(FlagMask, flags, ctx, m, exp)
    IN /\ ctx.ok
       /\ flags' = r.flags
       /\ last' = [Blank EXCEPT !.op = "ctx_round_fixed", !.m = m,
                                !.exp = exp, !.ctx = ctx, !.kval = r.kval,
                                !.res = r.val, !.mask = FlagMask]
       /\ UNCHANGED fpscr

\* the step of an operation instantiated with FlagMask
PerformMasked(q, name, E, FlagMask, x, y, z, ctx) ==
    /\ round_prec(ctx) <= (IF E = "FIXED" THEN FX_PREC ELSE FP_P)
    /\ ctx.ok
    /\ q.ok
    /\ flags' = q.flags
    /\ last' = [Blank EXCEPT !.op = name, !.engine = E, !.x = x, !.y = y,
                             !.z = z, !.ctx = ctx, !.r = q.r, !.res = q.val,
                             !.mask = FlagMask]
    /\ fpscr' = engine_fpscr(E, fpscr)

AddMasked(E, FlagMask, x, y, ctx) ==
    PerformMasked(add(E, FlagMask, flags, x, y, ctx),
                  "add", E, FlagMask, x, y, 0, ctx)

SubMasked(E, FlagMask, x, y, ctx) ==
    PerformMasked(sub(E, FlagMask, flags, x, y, ctx),
                  "sub", E, FlagMask, x, y, 0, ctx)

MulMasked(E, FlagMask, x, y, ctx) ==
    PerformMasked(mul(E, FlagMask, flags, x, y, ctx),
                  "mul", E, FlagMask, x, y, 0, ctx)

DivMasked(E, FlagMask, x, y, ctx) ==
    PerformMasked(div(E, FlagMask, flags, x, y, ctx),
                  "div", E, FlagMask, x, y, 0, ctx)

SqrtMasked(E, FlagMask, x, ctx) ==
    PerformMasked(sqrt(E, FlagMask, flags, x, ctx),
                  "sqrt", E, FlagMask, x, 0, 0, ctx)

FmaMasked(E, FlagMask, x, y, z, ctx) ==
    PerformMasked(fma(E, FlagMask, flags, x, y, z, ctx),
                  "fma", E, FlagMask, x, y, z, ctx)

\* both entry points of ctx.round under every mask, each call on a reset
\* register
NextMask ==
    \/ Reset
    \/ Ready /\ \E FlagMask \in MaskChoices, x \in Doubles,
                   ctx \in MaskContexts : CtxRoundMasked(FlagMask, x, ctx)
    \/ Ready /\ \E FlagMask \in MaskChoices, m \in FixedSignificands,
                   exp \in MaskExponents, ctx \in MaskContexts :
                   CtxRoundFixedMasked(FlagMask, m, exp, ctx)

SpecMask == Init /\ [][NextMask]_vars

\* the masked operations, each call on a reset register or on the register
\* the filling call leaves
NextFrame ==
    \/ Reset
    \/ CallSite /\ \E FlagMask \in MaskChoices, x \in OpDoubles,
                      ctx \in MaskContexts : CtxRoundMasked(FlagMask, x, ctx)
    \/ Ready /\ CtxRoundMasked(ALL_FLAGS, ShiftL(FP_BIAS, FP_M) + 3,
                    Context(1, None, SomeMax(ShiftL(FP_BIAS, FP_M)), "RAZ"))
    \/ CallSite /\ \E E \in SeqEngines, FlagMask \in OpMaskChoices,
                      x \in MaskOperands, y \in MaskOperands,
                      ctx \in MaskContexts : AddMasked(E, FlagMask, x, y, ctx)
    \/ CallSite /\ \E E \in SeqEngines, FlagMask \in OpMaskChoices,
                      x \in MaskOperands, y \in MaskOperands,
                      ctx \in MaskContexts : SubMasked(E, FlagMask, x, y, ctx)
    \/ CallSite /\ \E E \in SeqEngines \cup {"FIXED"},
                      FlagMask \in OpMaskChoices,
                      x \in MaskOperands, y \in MaskOperands,
                      ctx \in MaskContexts : MulMasked(E, FlagMask, x, y, ctx)
    \/ CallSite /\ \E E \in SeqEngines, FlagMask \in OpMaskChoices,
                      x \in MaskOperands, y \in MaskOperands,
                      ctx \in MaskContexts : DivMasked(E, FlagMask, x, y, ctx)
    \/ CallSite /\ \E E \in SeqEngines, FlagMask \in OpMaskChoices,
                      x \in MaskOperands, ctx \in MaskContexts :
                      SqrtMasked(E, FlagMask, x, ctx)
    \/ CallSite /\ \E E \in SeqEngines, FlagMask \in OpMaskChoices,
                      x \in MaskOperands, z \in MaskOperands,
                      ctx \in MaskContexts : FmaMasked(E, FlagMask, x, x, z, ctx)

SpecFrame == Init /\ [][NextFrame]_vars

\* ------------------------------------------------------------------------
\* C12: the rounded value does not depend on the flag mask
\* ------------------------------------------------------------------------

\* C12: the value ctx.round returns under any flag mask, through either
\* entry point, is the value it returns under ALL_FLAGS for the same input
\* and context: the mask never changes the rounded result.
C12_ValueIndependentOfMask ==
    /\ last.op = "ctx_round" =>
           last.res = Context_round(ALL_FLAGS, {}, last.ctx, last.x).val
    /\ last.op = "ctx_round_fixed" =>
           last.res = Context_round_fixed(ALL_FLAGS, {}, last.ctx,
                                          last.m, last.exp).val

\* under NO_FLAGS a fixed-point value was rounded inexactly by the kernel and
\* then replaced by the overflow result, with no flag written
C12_Witness ==
    /\ last.op = "ctx_round_fixed"
    /\ last.mask = NO_FLAGS
    /\ last.ctx.maxval.has
    /\ ~DoubleIsValue(last.kval, ValueOfFixed(last.m, last.exp))
    /\ last.res # last.kval
    /\ "inexact" \in Context_round_fixed(ALL_FLAGS, {}, last.ctx,
                                         last.m, last.exp).flags
    /\ flags = {}

\* ------------------------------------------------------------------------
\* C13: a masked operation writes only the flags of its mask
\* ------------------------------------------------------------------------

\* C13: an operation (round, add, sub, mul, div, sqrt, fma) instantiated
\* with a flag mask sets no flag outside the mask, and under NO_FLAGS leaves
\* the register as it found it.
C13_OnlyMaskedFlagsWritten ==
    [][last'.op # "reset" =>
          /\ (flags' \ flags) \subseteq last'.mask
          /\ last'.mask = NO_FLAGS => flags' = flags]_vars

\* add instantiated with NO_FLAGS returned with tiny_before in the register,
\* a flag the filling call never raises
C13_Diverges ==
    /\ last.op = "add"
    /\ last.mask = NO_FLAGS
    /\ "tiny_before" \in flags

\* ctx.round<FlagMask> alone keeps to its mask: after a call under NO_FLAGS
\* on the filled register the register holds what the filling call left
C13_RoundKeepsToMask ==
    (last.op = "ctx_round" /\ last.mask = NO_FLAGS) =>
        flags \in {{}, {"overflow", "inexact", "carry"}}

\* ------------------------------------------------------------------------
\* The hardware engine and the host's rounding mode
\* ------------------------------------------------------------------------

\* arch::set_rounding_mode(mode), called by the embedder between operations
SetRoundingMode(mode) ==
    /\ fpscr' = mode
    /\ UNCHANGED <<flags, last>>

\* operations of the hardware engine under every ambient rounding mode
NextFpu ==
    \/ Reset
    \/ Ready /\ \E mode \in HostModes : SetRoundingMode(mode)
    \/ Ready /\ \E x \in MaskOperands, y \in MaskOperands,
                   ctx \in MaskContexts : Add("FP_RTO", x, y, ctx)
    \/ Ready /\ \E x \in MaskOperands, y \in MaskOperands,
                   ctx \in MaskContexts : Sub("FP_RTO", x, y, ctx)
    \/ Ready /\ \E x \in MaskOperands, y \in MaskOperands,
                   ctx \in MaskContexts : Mul("FP_RTO", x, y, ctx)
    \/ Ready /\ \E x \in MaskOperands, y \in MaskOperands,
                   ctx \in MaskContexts : Div("FP_RTO", x, y, ctx)
    \/ Ready /\ \E x \in MaskOperands, ctx \in MaskContexts :
                   Sqrt("FP_RTO", x, ctx)
    \/ Ready /\ \E x \in MaskOperands, z \in MaskOperands,
                   ctx \in MaskContexts : Fma("FP_RTO", x, x, z, ctx)

SpecFpu == Init /\ [][NextFpu]_vars

\* ------------------------------------------------------------------------
\* C14: the hardware engine restores the rounding mode
\* ------------------------------------------------------------------------

\* C14: when an operation of the hardware engine returns, the host's
\* rounding mode is the one in effect when it was called, so a sequence of
\* such operations never leaves it at round-toward-zero.
C14_RoundingModeRestored ==
    [][(last'.op \in ArithOps /\ last'.engine = "FP_RTO") =>
          fpscr' = fpscr]_vars

\* an inexact hardware addition returned with the mode round-toward-positive
\* the embedder had set
C14_Witness ==
    /\ last.op = "add"
    /\ last.engine = "FP_RTO"
    /\ "inexact" \in flags
    /\ fpscr = "RTP"

\* ------------------------------------------------------------------------
\* C15: the value returned on overflow
\* ------------------------------------------------------------------------

\* the kernel-rounded value of the last ctx.round is finite and above maxval
KernelValueOverflows ==
    /\ CtxRoundCall
    /\ isfinite(last.kval)
    /\ MagnitudeExceeds(last.kval, last.ctx.maxval.val)

\* C15: when the kernel-rounded value r is finite and |r| > maxval,
\* ctx.round returns infinity with the sign of r if the direction for
\* (rm, sign of r) is away from zero, or to even with maxval odd, or to odd
\* with maxval even; otherwise it returns maxval with the sign of r.
C15_OverflowValue ==
    KernelValueOverflows =>
        LET s == signbit(last.kval)
            dir == get_direction(last.ctx.rm, s)
            odd == last.ctx.maxval_is_odd
            to_infinity == \/ dir = "AWAY_ZERO"
                           \/ dir = "TO_EVEN" /\ odd
                           \/ dir = "TO_ODD" /\ ~odd
            magnitude == IF to_infinity THEN POS_INF ELSE last.ctx.maxval.val
        IN last.res = IF s THEN Negate(magnitude) ELSE magnitude

\* a negative value above an odd maxval under RNE returned -inf
C15_Witness ==
    /\ KernelValueOverflows
    /\ last.ctx.rm = "RNE"
    /\ last.ctx.maxval_is_odd
    /\ last.res = Negate(POS_INF)

\* ------------------------------------------------------------------------
\* C16: the EFT engine against the hardware engine
\* ------------------------------------------------------------------------

\* what the hardware engine returns for the operands of the last operation
\* at full precision
HardwareResult ==
    CASE last.op = "add" -> engine_fp(FP_P, fpu_add(last.x, last.y, "RTZ"))
      [] last.op = "sub" -> engine_fp(FP_P, fpu_sub(last.x, last.y, "RTZ"))
      [] last.op = "mul" -> engine_fp(FP_P, fpu_mul(last.x, last.y, "RTZ"))
      [] last.op = "div" -> engine_fp(FP_P, fpu_div(last.x, last.y, "RTZ"))
      [] last.op = "sqrt" -> engine_fp(FP_P, fpu_sqrt(last.x, "RTZ"))
      [] last.op = "fma" ->
             engine_fp(FP_P, fpu_fma(last.x, last.y, last.z, "RTZ"))

\* the last operation ran the EFT engine on finite operands whose exact
\* result neither overflows nor underflows
EftCall ==
    /\ ArithCall
    /\ last.engine = "EFT"
    /\ InDoubleRange(ExactResult)

\* C16: for add, sub, mul, div, sqrt and fma on finite inputs whose exact
\* result neither overflows nor underflows, the EFT engine returns the bit
\* pattern the hardware engine (round toward zero, LSB set when inexact)
\* returns.
C16_EftEqualsHardware ==
    EftCall => (HardwareResult.ok /\ last.r = HardwareResult.val)

\* the EFT engine's intermediate result has a greater magnitude than the
\* hardware engine's round-to-odd value of the same negative sum
C16_Diverges ==
    /\ EftCall
    /\ last.op = "add"
    /\ HardwareResult.ok
    /\ signbit(last.r)
    /\ signbit(HardwareResult.val)
    /\ fabs(last.r) > fabs(HardwareResult.val)

\* ------------------------------------------------------------------------
\* C17: mul through the fixed-point engine
\* ------------------------------------------------------------------------

\* the last operation was mul through the fixed-point engine on finite
\* operands under a context MP(p, rm): no position n, no maxval (the step
\* is taken only when the product of the stripped significands fits the
\* signed type)
FixedMulCall ==
    /\ last.op = "mul"
    /\ last.engine = "FIXED"
    /\ isfinite(last.x)
    /\ isfinite(last.y)
    /\ ~last.ctx.n.has
    /\ ~last.ctx.maxval.has

\* the exact product of the last operation rounded once at (p, rm)
RoundedProduct ==
    RefRound(ExactMul(last.x, last.y), last.ctx.p, None, last.ctx.rm)

\* C17: mul with the FIXED engine under MP(p, rm), on finite x and y whose
\* stripped significands have a product that fits the signed type, returns
\* bit for bit the correctly rounded exact product, the sign of a zero
\* product included.
C17_FixedMulCorrectlyRounded ==
    (FixedMulCall /\ FitsDouble(RoundedProduct)) =>
        DoubleIsValue(last.res, RoundedProduct)

\* -0 times a positive value returned +0
C17_Diverges ==
    /\ FixedMulCall
    /\ last.x = NEG_ZERO
    /\ ~signbit(last.y)
    /\ ~IsZero(last.y)
    /\ last.res = 0

\* apart from the sign of a zero product the fixed-point engine delivers the
\* correctly rounded product
C17_NonZeroProductCorrectlyRounded ==
    (FixedMulCall /\ FitsDouble(RoundedProduct)
         /\ ~IsZero(last.x) /\ ~IsZero(last.y)) =>
        DoubleIsValue(last.res, RoundedProduct)

\* ------------------------------------------------------------------------
\* C18: non-finite arguments of round
\* ------------------------------------------------------------------------

\* C18: ctx.round(x) through the double entry point on NaN, +inf or -inf
\* returns x unchanged and leaves the flag register as it found it, for
\* every context, with or without maxval.
C18_NonFinitePassesThrough ==
    [][(last'.op = "ctx_round" /\ ~isfinite(last'.x)) =>
          (last'.res = last'.x /\ flags' = flags)]_vars

\* -inf rounded under a context with maxval and every flag enabled, on a
\* register that already held flags: returned as it was, register unchanged
C18_Witness ==
    /\ last.op = "ctx_round"
    /\ last.x = Negate(POS_INF)
    /\ last.res = last.x
    /\ last.ctx.maxval.has
    /\ last.mask = ALL_FLAGS
    /\ flags = {"overflow", "inexact", "carry"}

\* ------------------------------------------------------------------------
\* Construction of MPB contexts
\* ------------------------------------------------------------------------

\* MPBContext::MPBContext(prec, emin, maxval, rm): the base Context with
\* n = emin - prec; emin_ and emax_ are read only by their accessors
MPBContext(prec, emin, maxval, rm) ==
    Context(prec, Some(emin - prec), SomeMax(maxval), rm)

\* minimum exponents offered to an MPB context
MpbEmins == FP_EMIN .. (FP_EMIN + 2)

\* the construction returns
ConstructMPB(prec, emin, maxval, rm) ==
    LET ctx == MPBContext(prec, emin, maxval, rm)
    IN /\ ctx.ok
       /\ flags' = round(NO_FLAGS, flags, maxval, prec, ctx.n, rm).flags
       /\ last' = [Blank EXCEPT !.op = "construct", !.ctx = ctx]
       /\ UNCHANGED fpscr

\* the construction leaves through a failed MPFX_ASSERT: std::runtime_error
\* is thrown and no object exists; ctx records the arguments
ConstructMPBThrows(prec, emin, maxval, rm) ==
    LET ctx == MPBContext(prec, emin, maxval, rm)
    IN /\ ~ctx.ok
       /\ last' = [Blank EXCEPT !.op = "construct_throws", !.ctx = ctx]
       /\ UNCHANGED <<flags, fpscr>>

\* constructions of MPB contexts over every maxval
NextConstruct ==
    \/ Reset
    \/ Ready /\ \E prec \in Precs, emin \in MpbEmins, maxval \in Doubles,
                   rm \in RoundingMode : ConstructMPB(prec, emin, maxval, rm)
    \/ Ready /\ \E prec \in Precs, emin \in MpbEmins, maxval \in Doubles,
                   rm \in RoundingMode :
                   ConstructMPBThrows(prec, emin, maxval, rm)

SpecConstruct == Init /\ [][NextConstruct]_vars

\* ------------------------------------------------------------------------
\* C19: an MPB context whose maxval is not representable is rejected
\* ------------------------------------------------------------------------

\* maxval of the last construction differs from its own rounding at the
\* (p, n, rm) of that context
MaxvalNotRounded ==
    ~DoubleEq(last.ctx.maxval.val,
              round(NO_FLAGS, {}, last.ctx.maxval.val,
                    last.ctx.p, last.ctx.n, last.ctx.rm).val)

\* C19: the construction of an MPB context whose maxval differs from maxval
\* rounded under the context's own (p, n, rm) fails with an assertion error:
\* no such context is ever produced.
C19_UnroundedMaxvalRejected ==
    (last.op \in {"construct", "construct_throws"} /\ MaxvalNotRounded) =>
        last.op = "construct_throws"

\* a finite positive maxval with more significant bits than the context
\* keeps was rejected
C19_Witness ==
    /\ last.op = "construct_throws"
    /\ MaxvalNotRounded
    /\ isfinite(last.ctx.maxval.val)
    /\ ~signbit(last.ctx.maxval.val)
    /\ ilogb(last.ctx.maxval.val) >= last.ctx.n.val + last.ctx.p

\* ------------------------------------------------------------------------
\* context_ieee754.hpp: IEEE 754 contexts
\* ------------------------------------------------------------------------

\* ieee754_prec without the implicit bit
ieee754_prec_without_implicit_bit(es, nbits) == nbits - es - 1

ieee754_prec(es, nbits) == nbits - es

\* ieee754_emax without halving the exponent range
ieee754_emax_full_exponent_range(es) == bitmask(es)

ieee754_emax(es) == bitmask(es - 1)

ieee754_emin(es) == 1 - ieee754_emax(es)

\* the largest finite value of the format, encoded as a double
ieee754_max_value(es, nbits) ==
    LET prec == ieee754_prec(es, nbits)
        emax == ieee754_emax(es)
        mbits == ShiftL(bitmask(prec - 1), FP_P - prec)
        ebits == ShiftL(emax + FP_BIAS, FP_M)
    IN ebits + mbits

\* IEEE754Context(es, nbits, rm)
IEEE754Context(es, nbits, rm) ==
    MPBContext(ieee754_prec(es, nbits), ieee754_emin(es),
               ieee754_max_value(es, nbits), rm)

\* the formats no wider than double: es exponent bits, nbits bits in all
IeeeFormats ==
    {fmt \in (2 .. FP_E) \X (4 .. FP_N) :
        fmt[2] - fmt[1] >= 2 /\ fmt[2] - fmt[1] <= FP_P}

\* IEEE754Context(es, nbits, rm).round(x)
IeeeRound(es, nbits, rm, x) ==
    /\ IEEE754Context(es, nbits, rm).ok
    /\ CtxRound(x, IEEE754Context(es, nbits, rm))

\* rounding under IEEE 754 contexts, each call on a reset register
NextIeee ==
    \/ Reset
    \/ Ready /\ \E fmt \in IeeeFormats, rm \in RoundingMode, x \in Doubles :
                   IeeeRound(fmt[1], fmt[2], rm, x)

SpecIeee == Init /\ [][NextIeee]_vars

\* ------------------------------------------------------------------------
\* C20: rounding a double to the double format
\* ------------------------------------------------------------------------

\* the context of the double format itself, IEEE754(11, 64, RNE)
DoubleFormat == IEEE754Context(FP_E, FP_N, "RNE")

\* C20: for every double x (a zero of either sign, subnormal, normal,
\* infinite), IEEE754(11, 64, RNE).round(x) returns x itself.
C20_DoubleRoundIsIdentity ==
    (last.op = "ctx_round" /\ last.ctx = DoubleFormat) => last.res = last.x

\* a negative subnormal with its last bit set came back unchanged
C20_Witness ==
    /\ last.op = "ctx_round"
    /\ last.ctx = DoubleFormat
    /\ signbit(last.x)
    /\ EBitsOf(last.x) = 0
    /\ MBitsOf(last.x) % 2 = 1
    /\ last.res = last.x
    /\ "inexact" \notin flags

\* ------------------------------------------------------------------------
\* Conversions: unpack_float followed by make_float
\* ------------------------------------------------------------------------

\* make_float applied to the triple unpacked from u's double
pack(u) == make_float(u.s, u.exp, u.c)

\* auto [s, exp, c] = unpack_float(x); make_float<double>(s, exp, c): m and
\* exp record the triple
UnpackPack(x) ==
    /\ last' = [Blank EXCEPT !.op = "unpack_pack", !.x = x,
                             !.m = unpack_float(x).c,
                             !.exp = unpack_float(x).exp,
                             !.res = pack(unpack_float(x))]
    /\ UNCHANGED <<flags, fpscr>>

\* the conversions over every finite double
NextConvert ==
    \/ Reset
    \/ Ready /\ \E x \in FiniteDoubles : UnpackPack(x)

SpecConvert == Init /\ [][NextConvert]_vars

\* ------------------------------------------------------------------------
\* C21: unpack_float and make_float round-trip
\* ------------------------------------------------------------------------

\* C21: for every finite x, make_float applied to the triple (s, exp, c)
\* of unpack_float(x) is x bit for bit, signed zeros and subnormals
\* included.
C21_UnpackPackRoundTrip ==
    last.op = "unpack_pack" => last.res = last.x

\* a negative subnormal with more than one significant bit came back
C21_Witness ==
    /\ last.op = "unpack_pack"
    /\ signbit(last.x)
    /\ EBitsOf(last.x) = 0
    /\ last.m > 2
    /\ last.exp = FP_EXPMIN
    /\ last.res = last.x

\* ------------------------------------------------------------------------
\* C22: a 16-bit value of all ones under the 16-bit formats
\* ------------------------------------------------------------------------

\* Width shared by the two 16-bit formats: the exponent field of the double
\* plus a two-bit significand (16 = 8 + 8 in IEEE754(8, 16))
SixteenBits == FP_E + 2

\* IEEE754(8, 16, RNE): es is the width of the exponent field, so p = 8 and
\* emax = 127; in the model the exponent field is as wide as the double's
\* may be and p = 2
WideExponentFormat == IEEE754Context(FP_E, SixteenBits, "RNE")

\* IEEE754(5, 16, RNE), half precision: a narrower exponent field and a
\* wider significand in the same width (maxval 65504)
HalfFormat == IEEE754Context(FP_E - 1, SixteenBits, "RNE")

\* 65535.0: every bit set below 2^(emax + 1) of the half format, one bit
\* more than its significand holds and above its maxval
AllOnesBelowNextBinade ==
    (ieee754_emax(FP_E - 1) + FP_BIAS) * Pow2(FP_M) + FP_MMASK

\* C22 as stated: IEEE754(8, 16, RNE).round(65535.0) returns +infinity and
\* raises overflow and inexact.
C22_WideExponentOverflows ==
    (/\ last.op = "ctx_round"
     /\ last.ctx = WideExponentFormat
     /\ last.x = AllOnesBelowNextBinade)
    => (last.res = POS_INF /\ {"overflow", "inexact"} \subseteq flags)

\* C22: IEEE754(5, 16, RNE).round(65535.0) returns +infinity and raises
\* overflow and inexact, while IEEE754(8, 16, RNE).round(65535.0) returns
\* the next power of two (65536.0) with inexact and without overflow.
C22_HalfFormatOverflows ==
    /\ (/\ last.op = "ctx_round"
        /\ last.ctx = HalfFormat
        /\ last.x = AllOnesBelowNextBinade)
       => (last.res = POS_INF /\ {"overflow", "inexact"} \subseteq flags)
    /\ (/\ last.op = "ctx_round"
        /\ last.ctx = WideExponentFormat
        /\ last.x = AllOnesBelowNextBinade)
       => /\ last.res = AllOnesBelowNextBinade + 1
          /\ "inexact" \in flags
          /\ "overflow" \notin flags

\* the half format has rounded the value to +infinity
C22_Witness ==
    /\ last.op = "ctx_round"
    /\ last.ctx = HalfFormat
    /\ last.x = AllOnesBelowNextBinade
    /\ last.res = POS_INF
    /\ "overflow" \in flags

\* ------------------------------------------------------------------------
\* Rerounding: a real value rounded to odd at round_prec() = p + 2 bits or
\* more (k bits), the intermediate then rounded by the kernel at (p, n, rm)
\* ------------------------------------------------------------------------

\* bits of the intermediate beyond round_prec(): none or one more
MorePrecs == 0 .. 1

\* target precisions that leave the intermediate within the fixed-point
\* significand
ReroundPrecs == 1 .. (FX_PREC - 2)

\* exponents of the last bit of the real values: below the least subnormal
\* bit up to values above the largest finite double
RealExponents == (FP_EXPMIN - 1) .. (FP_EMAX - FX_PREC + 1)

\* positions n of the rerounding steps: absent, below the subnormal
\* range, inside the range of the values and above it
ReroundPositions == {None, Some(FP_EXPMIN - 1), Some(FP_EMIN), Some(FP_EMAX)}

\* the real values: one bit more than the fixed-point significand holds,
\* and a sticky part standing for every value strictly between two of
\* them; the real zero has no sign
RealValues ==
    {v \in [s : BOOLEAN, c : 0 .. bitmask(FX_PREC + 1), exp : RealExponents,
            sticky : BOOLEAN] : v.c = 0 => (~v.s /\ ~v.sticky)}

\* v rounded to odd at prec significant bits, exponent unbounded
round_to_odd(v, prec) == RefRound(v, prec, None, "RTO")

\* the fixed-point significand of a value
SignedSignificand(t) == IF t.s THEN 0 - t.c ELSE t.c

\* the sticky part of v lies below the bits an intermediate of prec bits keeps
StickyBelow(v, prec) == v.sticky => bit_width(v.c) >= prec

\* the record of a rerounding step: m, exp, y and z hold the real value
\* (significand, exponent, sign, sticky), r the precision of the
\* intermediate
ReroundRecord(name, v, p, k, n, rm, q) ==
    [Blank EXCEPT !.op = name, !.m = v.c, !.exp = v.exp,
                  !.y = IF v.s THEN 1 ELSE 0,
                  !.z = IF v.sticky THEN 1 ELSE 0,
                  !.r = k, !.ctx = Context(p, n, NoMax, rm),
                  !.kval = q.val, !.res = q.val]

\* the doubles holding the value t exactly: one or none
AsDouble(t) == IF FitsDouble(t) THEN {make_float(t.s, t.exp, t.c)} ELSE {}

\* round(x, p, n, rm) on the intermediate, the double x
ReroundDouble(v, x, p, k, n, rm) ==
    /\ flags' = round(ALL_FLAGS, flags, x, p, n, rm).flags
    /\ last' = ReroundRecord("reround", v, p, k, n, rm,
                             round(ALL_FLAGS, flags, x, p, n, rm))
    /\ UNCHANGED fpscr

\* round(m, exp, p, n, rm) on the intermediate t = m * 2^exp
ReroundFixed(v, t, p, k, n, rm) ==
    /\ t.c < Pow2(FX_PREC)
    /\ flags' = round_fixed(ALL_FLAGS, flags, SignedSignificand(t), t.exp, p, n, rm).flags
    /\ last' = ReroundRecord("reround_fixed", v, p, k, n, rm,
                   round_fixed(ALL_FLAGS, flags, SignedSignificand(t), t.exp, p, n, rm))
    /\ UNCHANGED fpscr

\* rerounding through either entry point, each call on a reset register
NextReround ==
    \/ Reset
    \/ Ready /\ \E v \in RealValues, p \in ReroundPrecs, more \in MorePrecs,
                   n \in ReroundPositions, rm \in RoundingMode :
                   \E k \in {round_prec(Context(p, n, NoMax, rm)) + more} :
                   /\ k <= FX_PREC
                   /\ StickyBelow(v, k)
                   /\ \E t \in {round_to_odd(v, k)} :
                          \/ \E x \in AsDouble(t) :
                                ReroundDouble(v, x, p, k, n, rm)
                          \/ ReroundFixed(v, t, p, k, n, rm)

SpecReround == Init /\ [][NextReround]_vars

\* ------------------------------------------------------------------------
\* C23: two-step rounding through round-to-odd
\* ------------------------------------------------------------------------

ReroundCall == last.op \in {"reround", "reround_fixed"}

\* the real value of the last rerounding step
ReroundValue ==
    [s |-> last.y = 1, c |-> last.m, exp |-> last.exp, sticky |-> last.z = 1]

\* its round-to-odd intermediate
ReroundIntermediate == round_to_odd(ReroundValue, last.r)

\* the real value rounded once at (p, n, rm)
ReroundDirect ==
    RefRound(ReroundValue, last.ctx.p, last.ctx.n, last.ctx.rm)

\* C23: for every real value v, every p, every optional n and every
\* rounding mode, rounding v to odd at p + 2 or more bits and rounding the
\* intermediate with the kernel at (p, n, rm) gives v rounded once at
\* (p, n, rm) (compared wherever that value is a double).
C23_ReroundEqualsDirect ==
    (ReroundCall /\ FitsDouble(ReroundDirect)) =>
        DoubleIsValue(last.res, ReroundDirect)

\* a value with a sticky part whose intermediate is a tie of the target
\* format's neighbours plus the odd bit, rounded to nearest
C23_Witness ==
    /\ ReroundCall
    /\ last.z = 1
    /\ last.ctx.rm = "RNE"
    /\ last.ctx.p = 2
    /\ last.r = round_prec(last.ctx)
    /\ ~SameMagnitude(ReroundIntermediate.c, ReroundIntermediate.exp,
                      ReroundDirect.c, ReroundDirect.exp)
    /\ ReroundIntermediate.c % 4 = 1
    /\ FitsDouble(ReroundDirect)
    /\ "inexact" \in flags

\* ------------------------------------------------------------------------
\* C24: the increment of the parity modes RTO and RTE
\* ------------------------------------------------------------------------

\* the position of the last digit round(x, p, n, rm) keeps of the finite
\* non-zero double x: bit p_lost of c_kept
KeptPosition(x, p, n) ==
    IF n.has /\ n.val + 1 > ilogb(x) - p + 1 THEN n.val + 1
    ELSE ilogb(x) - p + 1

\* the digit of weight 2^q in the magnitude of the finite double b
DigitAt(b, q) ==
    IF q < unpack_float(b).exp THEN 0
    ELSE ShiftR(unpack_float(b).c, q - unpack_float(b).exp) % 2

\* the last round(x, p, n, rm) took the inexact branch, and a double
\* holds the value it arrived at
InexactRound ==
    /\ last.op = "round"
    /\ isfinite(last.x)
    /\ "inexact" \in flags
    /\ FitsDouble(RefRound(ValueOfDouble(last.x), last.ctx.p, last.ctx.n,
                           last.ctx.rm))

\* the last kept digit of the input and of the result of the last call
LastKeptOfInput ==
    DigitAt(last.x, KeptPosition(last.x, last.ctx.p, last.ctx.n))

LastKeptOfResult ==
    DigitAt(last.res, KeptPosition(last.x, last.ctx.p, last.ctx.n))

\* the kept significand was incremented: the magnitude grew
Incremented == fabs(last.res) > fabs(last.x)

\* C24: in the inexact branch RTE increments the kept significand iff its
\* last kept bit is 1 and RTO iff that bit is 0; an inexact RTE result has
\* an even last kept bit and an inexact RTO result an odd one (read off the
\* double returned, wherever a double holds the rounded value).
C24_ParityModesIncrement ==
    InexactRound =>
        /\ last.ctx.rm = "RTE" =>
              /\ Incremented <=> LastKeptOfInput = 1
              /\ LastKeptOfResult = 0
        /\ last.ctx.rm = "RTO" =>
              /\ Incremented <=> LastKeptOfInput = 0
              /\ LastKeptOfResult = 1

\* RTE incremented an odd kept significand and the increment carried
C24_Witness ==
    /\ InexactRound
    /\ last.ctx.rm = "RTE"
    /\ last.ctx.p > 1
    /\ LastKeptOfInput = 1
    /\ Incremented
    /\ "carry" \in flags
    /\ LastKeptOfResult = 0

\* ------------------------------------------------------------------------
\* C25: carry without subnormalization
\* ------------------------------------------------------------------------

\* C25: with n absent, round(x, p, none, rm) from a reset register raises
\* carry iff x != 0 and the normalized exponent of the result exceeds the
\* normalized exponent of x.
C25_CarryIffExponentGrew ==
    (RoundCall /\ ~last.ctx.n.has) =>
        (("carry" \in flags) <=>
            (~IsZero(last.x) /\ ilogb(last.res) > ilogb(last.x)))

\* a subnormal rounded up into the next binade under a context without n
C25_Witness ==
    /\ RoundCall
    /\ ~last.ctx.n.has
    /\ EBitsOf(last.x) = 0
    /\ ~IsZero(last.x)
    /\ isfinite(last.res)
    /\ ilogb(last.res) = ilogb(last.x) + 1
    /\ "carry" \in flags

\* ------------------------------------------------------------------------
\* The finalize step of the EFT engine on the pairs of two_sum and two_prod
\* ------------------------------------------------------------------------

\* round_finalize(high, low) on a finite pair: x and y record high and low
EftFinalize(name, hl) ==
    /\ eft_round_finalize(hl[1], hl[2]).ok
    /\ last' = [Blank EXCEPT !.op = name, !.engine = "EFT",
                             !.x = hl[1], !.y = hl[2],
                             !.res = eft_round_finalize(hl[1], hl[2]).val]
    /\ UNCHANGED <<flags, fpscr>>

\* auto [s, t] = two_sum(x, y); round_finalize(s, t)
FinalizeSum(x, y) == EftFinalize("finalize_sum", two_sum(x, y))

\* auto [p, e] = two_prod(x, y); round_finalize(p, e)
FinalizeProd(x, y) == EftFinalize("finalize_prod", two_prod(x, y))

\* the finalize step over the pairs of every two finite doubles
NextEft ==
    \/ Reset
    \/ Ready /\ \E x \in FiniteDoubles, y \in FiniteDoubles : FinalizeSum(x, y)
    \/ Ready /\ \E x \in FiniteDoubles, y \in FiniteDoubles : FinalizeProd(x, y)

SpecEft == Init /\ [][NextEft]_vars

\* ------------------------------------------------------------------------
\* C26: the finalize step of the EFT engine
\* ------------------------------------------------------------------------

\* the last step finalized a pair whose low part is not zero
InexactPair ==
    /\ last.op \in {"finalize_sum", "finalize_prod"}
    /\ ~is_zero(last.y)

\* the double one ulp closer to zero than the finite non-zero b
TowardZero(b) == b - 1

\* C26: for a finite pair (high, low) with low != 0 and either sign of
\* high, the finalize step returns high with its LSB set when the signs of
\* high and low agree, and otherwise the double one ulp closer to zero than
\* high, with its LSB set.
C26_FinalizeIsRoundToOdd ==
    InexactPair =>
        last.res = IF signbit(last.x) = signbit(last.y)
                   THEN jam_lsb(last.x)
                   ELSE jam_lsb(TowardZero(last.x))

\* a negative high part with a positive low part came back one ulp
\* farther from zero
C26_Diverges ==
    /\ InexactPair
    /\ signbit(last.x)
    /\ ~signbit(last.y)
    /\ last.x % 2 = 1
    /\ last.res = jam_lsb(last.x + 1)
    /\ last.res # jam_lsb(TowardZero(last.x))

\* for a positive high part the step is as stated
C26_PositiveHighFinalized ==
    (InexactPair /\ ~signbit(last.x)) =>
        last.res = IF ~signbit(last.y) THEN jam_lsb(last.x)
                   ELSE jam_lsb(TowardZero(last.x))

\* ------------------------------------------------------------------------
\* C27: the parity recorded for maxval
\* ------------------------------------------------------------------------

\* the last bit of the p-bit significand of the finite non-zero double b:
\* its significand normalised to the leading one and cut (or extended with
\* zeros) to p bits
SignificandLsb(b, p) ==
    IF bit_width(unpack_float(b).c) < p THEN 0
    ELSE ShiftR(unpack_float(b).c, bit_width(unpack_float(b).c) - p) % 2

\* a context with a finite non-zero maxval has been constructed
ConstructedWithMaxval ==
    /\ last.op = "construct"
    /\ last.ctx.maxval.has
    /\ isfinite(last.ctx.maxval.val)
    /\ ~IsZero(last.ctx.maxval.val)

\* C27: for every context constructed with a maxval and every p >= 1, the
\* recorded maxval_odd is the least significant bit of maxval's p-bit
\* significand.
C27_MaxvalOddIsSignificandLsb ==
    ConstructedWithMaxval =>
        (last.ctx.maxval_is_odd
            <=> SignificandLsb(last.ctx.maxval.val, last.ctx.p) = 1)

\* p = 1 and a normal maxval whose exponent field is even: the one-bit
\* significand is 1, the context records maxval as even
C27_Diverges ==
    /\ ConstructedWithMaxval
    /\ last.ctx.p = 1
    /\ EBitsOf(last.ctx.maxval.val) # 0
    /\ EBitsOf(last.ctx.maxval.val) % 2 = 0
    /\ SignificandLsb(last.ctx.maxval.val, last.ctx.p) = 1
    /\ ~last.ctx.maxval_is_odd

\* for p >= 2 and a normal maxval the recorded parity is that bit
C27_ParityOfNormalMaxval ==
    (/\ ConstructedWithMaxval
     /\ last.ctx.p >= 2
     /\ EBitsOf(last.ctx.maxval.val) # 0)
    => (last.ctx.maxval_is_odd
           <=> SignificandLsb(last.ctx.maxval.val, last.ctx.p) = 1)

\* ------------------------------------------------------------------------
\* mul<Engine::FIXED> on operands of any width: xm * ym is a signed
\* multiplication, whose overflow is undefined
\* ------------------------------------------------------------------------

\* the values const int64_t m = xm * ym can take: the product when the
\* signed type holds it, any value of the type otherwise
signed_product(xm, ym) ==
    IF xm * ym >= FX_MIN_VAL /\ xm * ym < Pow2(FX_PREC) THEN {xm * ym}
    ELSE FX_MIN_VAL .. bitmask(FX_PREC)

\* unpack_float and minimize: the stripped significand and its exponent
to_minimal(x) == minimize(unpack_float(x).c, unpack_float(x).exp)

\* xs ? -static_cast<int64_t>(xc) : static_cast<int64_t>(xc)
apply_sign(x) ==
    IF unpack_float(x).s THEN 0 - to_minimal(x).c ELSE to_minimal(x).c

\* positive doubles of the binades of 0.5 and 1.0, every significand
FixedOperands ==
    {b \in FiniteDoubles :
        ~signbit(b) /\ EBitsOf(b) \in {FP_BIAS - 1, FP_BIAS}}

\* MP(p, rm) contexts the engine can serve
FixedContexts ==
    {Context(p, None, NoMax, rm) :
        p \in 1 .. (FX_PREC - 2), rm \in RoundingMode}

\* mul<Engine::FIXED>(x, y, ctx) on finite operands: m is the product the
\* multiplication delivered, exp = xexp + yexp
MulFixed(x, y, m, exp, ctx) ==
    /\ flags' = Context_round_fixed(ALL_FLAGS, flags, ctx, m, exp).flags
    /\ last' = [Blank EXCEPT
                  !.op = "mul_fixed", !.engine = "FIXED", !.x = x, !.y = y,
                  !.m = m, !.exp = exp, !.ctx = ctx,
                  !.res = Context_round_fixed(ALL_FLAGS, flags, ctx, m, exp).val]
    /\ UNCHANGED fpscr

NextFixed ==
    \/ Reset
    \/ Ready /\ \E x \in FixedOperands, y \in FixedOperands,
                   ctx \in FixedContexts :
                   \E m \in signed_product(apply_sign(x), apply_sign(y)),
                      exp \in {to_minimal(x).exp + to_minimal(y).exp} :
                      MulFixed(x, y, m, exp, ctx)

SpecFixed == Init /\ [][NextFixed]_vars

\* ------------------------------------------------------------------------
\* C28: the product of two doubles of full width under the FIXED engine
\* ------------------------------------------------------------------------

\* a target precision whose double the fixed-point significand holds (24
\* of 63 bits)
ProductPrec == FX_PREC \div 2

\* 0.1 as a double: a significand that fills the double but for one
\* trailing zero, in a binade below 1.0
FullWidthOperand == make_float(FALSE, 0 - FP_P, 2 * bitmask(FP_P - 1))

\* x holds at most p significant bits
PreRounded(x, p) == bit_width(to_minimal(x).c) <= p

\* the exact product of the last mul, rounded once at the precision and
\* mode of its context
FixedReference ==
    RefRound(ExactMul(last.x, last.y), last.ctx.p, None, last.ctx.rm)

RaisedAlone(l) ==
    CASE l.op = "ctx_round" -> Context_round(ALL_FLAGS, {}, l.ctx, l.x).flags
      [] l.op = "neg" -> neg({}, l.x, l.ctx).flags
      [] l.op = "abs" -> abs({}, l.x, l.ctx).flags
      [] l.op = "add" -> add(l.engine, ALL_FLAGS, {}, l.x, l.y, l.ctx).flags
      [] l.op = "sub" -> sub(l.engine, ALL_FLAGS, {}, l.x, l.y, l.ctx).flags
      [] l.op = "mul" -> mul(l.engine, ALL_FLAGS, {}, l.x, l.y, l.ctx).flags
      [] l.op = "div" -> div(l.engine, ALL_FLAGS, {}, l.x, l.y, l.ctx).flags
      [] l.op = "sqrt" -> sqrt(l.engine, ALL_FLAGS, {}, l.x, l.ctx).flags
      [] l.op = "fma" ->
            fma(l.engine, ALL_FLAGS, {}, l.x, l.y, l.z, l.ctx).flags
      [] OTHER -> {}

\* C29: the flags a call raises do not depend on the register it finds:
\* over any sequence of calls without reset, each call leaves the register
\* as the union of what it found and what the call raises when run alone
\* from a reset register.
C29_RegisterIsUnionOfFlagsRaisedAlone ==
    [][last'.op # "reset" => flags' = flags \cup RaisedAlone(last')]_vars

\* an inexact rounding of a value that is not tiny ran on a register that
\* held tiny_before from an earlier call, and underflow is not raised
C29_Witness ==
    /\ last.op = "ctx_round"
    /\ "inexact" \in RaisedAlone(last)
    /\ "tiny_before" \notin RaisedAlone(last)
    /\ {"tiny_before", "tiny_after", "invalid", "inexact"} \subseteq flags
    /\ "underflow_before" \notin flags

\* ------------------------------------------------------------------------
\* Rounding twice: y = ctx.round(x); flags.reset(); z = ctx.round(y)
\* ------------------------------------------------------------------------

\* MP(p, rm): precision alone
MPContext(prec, rm) == Context(prec, None, NoMax, rm)

\* MPS(p, emin, rm): n = emin - p
MPSContext(prec, emin, rm) == Context(prec, Some(emin - prec), NoMax, rm)

\* minimum exponents offered to an MPS context: n = emin - p runs from
\* below the least subnormal bit to two positions above the top binade
MpsEmins == (FP_EXPMIN - 1) .. (FP_EMAX + 3)

\* the contexts of the four kinds whose construction succeeds
TwiceContexts ==
    {MPContext(p, rm) : p \in Precs, rm \in RoundingMode}
    \cup {MPSContext(p, emin, rm) :
             p \in Precs, emin \in MpsEmins, rm \in RoundingMode}
    \cup {c \in {MPBContext(p, emin, mv.val, rm) :
                    p \in Precs, emin \in MpbEmins, rm \in RoundingMode,
                    mv \in UNION {MaxvalChoices(q) : q \in Precs}} : c.ok}
    \cup {IEEE754Context(fmt[1], fmt[2], rm) :
             fmt \in IeeeFormats, rm \in RoundingMode}

\* the second rounding of y on the register reset after the first; r
\* records y
RoundAgain(x, y, ctx) ==
    /\ flags' = Context_round(ALL_FLAGS, reset(flags), ctx, y).flags
    /\ last' = [Blank EXCEPT
                  !.op = "round_twice", !.x = x, !.r = y, !.ctx = ctx,
                  !.res = Context_round(ALL_FLAGS, reset(flags), ctx, y).val]
    /\ UNCHANGED fpscr

\* ctx.round(x), flags.reset(), ctx.round of the value returned
RoundTwice(x, ctx) ==
    \E y \in {Context_round(ALL_FLAGS, flags, ctx, x).val} :
        RoundAgain(x, y, ctx)

NextTwice ==
    \/ Reset
    \/ Ready /\ \E x \in Doubles, ctx \in TwiceContexts : RoundTwice(x, ctx)

SpecTwice == Init /\ [][NextTwice]_vars

\* ------------------------------------------------------------------------
\* C30: rounding is idempotent
\* ------------------------------------------------------------------------

\* C30: for every context (MP, MPS, MPB, IEEE754) and every double x,
\* ctx.round(ctx.round(x)) is ctx.round(x), and the second rounding, run
\* from a reset register, does not raise inexact.
C30_RoundIsIdempotent ==
    last.op = "round_twice" =>
        (last.res = last.r /\ "inexact" \notin flags)

\* the least value above position n lies beyond 2^(EMAX + 1): rounding the
\* least subnormal upward returned a negative double, which the second
\* rounding took to -0 with inexact raised
C30_Diverges ==
    /\ last.op = "round_twice"
    /\ last.ctx.n.has
    /\ last.ctx.n.val > FP_EMAX + 1
    /\ ~signbit(last.x)
    /\ signbit(last.r)
    /\ ~IsZero(last.r)
    /\ last.res = NEG_ZERO
    /\ "inexact" \in flags

\* wherever n is absent or at most EMAX + 1, rounding is idempotent and the
\* second rounding raises no inexact
C30_IdempotentWithinRange ==
    (/\ last.op = "round_twice"
     /\ last.ctx.n.has => last.ctx.n.val <= FP_EMAX + 1)
    => (last.res = last.r /\ "inexact" \notin flags)

====
